---- MODULE Spec2Model ----
EXTENDS Integers, Sequences, FiniteSets, TLC

(***************************************************************************)
(* WiFi history store (wifi_history.c), connection event handler and       *)
(* auto-connect task (wifi_manager.c).                                     *)
(*                                                                         *)
(* C strings are sequences of characters; a pointer argument is <<>> for   *)
(* NULL and <<s>> for a pointer to s.  Unsigned fields keep their width.   *)
(***************************************************************************)

\* ---- bounds of the model ------------------------------------------------
\* Table capacity.  The source sizes the table at 10 slots; the model keeps
\* the code's loops over the capacity and runs them over a smaller table.
WIFI_HISTORY_MAX_NETWORKS == 3
\* Number of distinct network names the callers use.
NumSsids == 4
\* esp_timer seconds since boot run over 0..MaxTime.
MaxTime == 1
\* Cap on a record's connect_count in the store specification.
MaxConnectCount == 2
\* Cap on a record's connect_count in the repeated-success specification.
MaxSuccessCount == 17
\* Length to which a run of generic Disconnected events is counted.
MaxStreak == 7
\* Number of access points in a scan result.
MaxScan == 2
\* Number of NVS failures injected per run.
MaxFaults == 1

\* ---- program constants --------------------------------------------------
WIFI_HISTORY_SSID_MAX_LEN == 32
WIFI_HISTORY_PASSWORD_MAX_LEN == 64
DefaultPriority == 100
PriorityStep == 10

VARIABLES
    networks,        \* s_wifi_history.networks[0..N-1]
    count,           \* s_wifi_history.count (uint8_t)
    next_timestamp,  \* s_wifi_history.next_timestamp (uint32_t)
    s_initialized,   \* wifi_history.c s_initialized
    nvs,             \* NVS namespace "wifi_history": keys networks, count, timestamp
    now,             \* esp_timer_get_time() / 1000000
    budget,          \* NVS failures the flash will still produce in this run
    last,            \* the last operation: its name, argument, result and output
    saved,           \* <<table, count>> in memory at the last wifi_history_save
                     \* if it returned ESP_OK, else <<>>
    s_retry_num,     \* wifi_manager.c s_retry_num
    mdns_initialized,\* wifi_manager.c mdns_initialized
    wifi_state,      \* NVS namespace "wifi_state", key connection_failed
    sta_config,      \* the driver's station configuration (esp_wifi_set_config)
    assoc,           \* the station is associated (esp_wifi_sta_get_ap_info succeeds)
    calls,           \* the radio-driver calls the last handler or sequence made
    streak,          \* generic Disconnected events in a row since the retry
                     \* counter was reset, the connects issued for them, and
                     \* all connects the handler issued since that reset
    failed_attempts, \* wifi_auto_connect_task: failed_attempts
    wifi_config,     \* NVS namespace "wifi_config": keys sta_config,
                     \* connection_failed
    updater,         \* the event task inside wifi_history_update_success
    walker,          \* the loop task inside the selection walk
    usb,             \* usbd_cdc.c: s_cdc_dev, the mutex object and the senders
    ws               \* web_socket.c: ws_ctx, the message queue and the heap

storeVars == <<networks, count, next_timestamp, s_initialized, nvs, now, budget, last,
               saved>>
orchVars == <<s_retry_num, mdns_initialized, wifi_state, streak>>
drvVars == <<sta_config, assoc, calls>>
taskVars == <<failed_attempts, wifi_config, usb, ws, updater, walker>>

Slots == 0 .. (WIFI_HISTORY_MAX_NETWORKS - 1)

U8(x) == x % 256
\* uint32_t fields (last_connected, connect_count, next_timestamp) stay below
\* MaxTime and the connect-count caps, far from 2^32: they are plain naturals

NULL == <<>>
Ptr(x) == <<x>>
Deref(p) == p[1]

strlen(s) == Len(s)
Min(a, b) == IF a < b THEN a ELSE b
\* strlcpy(dst, src, size): at most size-1 characters are copied
strlcpy(src, size) == SubSeq(src, 1, Min(Len(src), size - 1))

SsidPool == << <<"a">>, <<"b">>, <<"c">>, <<"d">>, <<"e">>, <<"f">> >>
Ssids == {SsidPool[i] : i \in 1 .. Min(NumSsids, Len(SsidPool))}

ZeroBssid == <<0, 0, 0, 0, 0, 0>>
BssidA == <<16, 32, 48, 64, 80, 96>>
\* differs from BssidA in the last byte only
BssidB == <<16, 32, 48, 64, 80, 97>>

\* a slot after memset(entry, 0, sizeof(wifi_history_entry_t))
ZeroEntry ==
    [ssid |-> <<>>, password |-> <<>>, bssid |-> ZeroBssid, channel |-> 0,
     authmode |-> 0, rssi |-> 0, last_connected |-> 0, connect_count |-> 0,
     priority |-> 0, is_valid |-> FALSE]

ZeroTable == [i \in Slots |-> ZeroEntry]

get_timestamp == now

\* ---- lookups ------------------------------------------------------------
RECURSIVE find_network_from(_, _, _)
find_network_from(nets, ssid, i) ==
    IF i >= WIFI_HISTORY_MAX_NETWORKS THEN -1
    ELSE IF nets[i].is_valid /\ nets[i].ssid = ssid THEN i
    ELSE find_network_from(nets, ssid, i + 1)

\* mutant: the lookup skips slot 0
find_network_index_skip0(nets, ssidp) ==
    IF ssidp = NULL THEN -1 ELSE find_network_from(nets, Deref(ssidp), 1)

find_network_index(nets, ssidp) ==
    IF ssidp = NULL THEN -1 ELSE find_network_from(nets, Deref(ssidp), 0)

RECURSIVE find_empty_from(_, _)
find_empty_from(nets, i) ==
    IF i >= WIFI_HISTORY_MAX_NETWORKS THEN -1
    ELSE IF ~nets[i].is_valid THEN i
    ELSE find_empty_from(nets, i + 1)

find_empty_slot(nets) == find_empty_from(nets, 0)

\* the loop of find_lowest_priority_slot from index i, with the running
\* lowest_index / lowest_priority / oldest_time in acc
RECURSIVE lowest_from(_, _, _)
lowest_from(nets, i, acc) ==
    IF i >= WIFI_HISTORY_MAX_NETWORKS THEN acc.lowest_index
    ELSE IF ~nets[i].is_valid THEN lowest_from(nets, i + 1, acc)
    ELSE IF \/ nets[i].priority < acc.lowest_priority
            \/ /\ nets[i].priority = acc.lowest_priority
               /\ nets[i].last_connected < acc.oldest_time
         THEN lowest_from(nets, i + 1,
                  [lowest_index |-> i, lowest_priority |-> nets[i].priority,
                   oldest_time |-> nets[i].last_connected])
         ELSE lowest_from(nets, i + 1, acc)

find_lowest_priority_slot(nets) ==
    lowest_from(nets, 1,
        [lowest_index |-> 0, lowest_priority |-> nets[0].priority,
         oldest_time |-> nets[0].last_connected])

\* ---- sort ---------------------------------------------------------------
\* the comparison of the bubble sort: a must move behind b
ranks_below(a, b) ==
    \/ a.priority < b.priority
    \/ a.priority = b.priority /\ a.last_connected < b.last_connected

\* one iteration of the inner loop body at index j
sort_step(nets, j) ==
    IF ~nets[j].is_valid THEN nets
    ELSE IF ~nets[j + 1].is_valid THEN nets
    ELSE IF ranks_below(nets[j], nets[j + 1])
         THEN [nets EXCEPT ![j] = nets[j + 1], ![j + 1] = nets[j]]
         ELSE nets

RECURSIVE sort_inner(_, _, _)
sort_inner(nets, i, j) ==
    IF j < WIFI_HISTORY_MAX_NETWORKS - 1 - i
    THEN sort_inner(sort_step(nets, j), i, j + 1)
    ELSE nets

RECURSIVE sort_outer(_, _)
sort_outer(nets, i) ==
    IF i < WIFI_HISTORY_MAX_NETWORKS - 1
    THEN sort_outer(sort_inner(nets, i, 0), i + 1)
    ELSE nets

sort_networks_by_priority(nets) == sort_outer(nets, 0)

\* ---- persistence (NVS namespace "wifi_history") --------------------------
ESP_OK == "ESP_OK"
ESP_ERR_INVALID_STATE == "ESP_ERR_INVALID_STATE"
ESP_ERR_INVALID_ARG == "ESP_ERR_INVALID_ARG"
ESP_ERR_NOT_FOUND == "ESP_ERR_NOT_FOUND"
\* any error an nvs_* call reports
ESP_ERR_NVS == "ESP_ERR_NVS"

EmptyNvs == [networks |-> <<>>, count |-> <<>>, timestamp |-> <<>>]

\* the nvs_* calls of wifi_history_save that can fail, in call order
SaveFailPoints == {"open", "blob", "count", "timestamp", "commit"}
\* the nvs_* calls of wifi_history_load that can fail, in call order
LoadFailPoints == {"open", "blob", "count", "timestamp"}

\* a save that reports success whatever the nvs_* calls return
wifi_history_save_nvs_quiet(nets, cnt, ts, store, fail, flushed) ==
    [ret |-> ESP_OK,
     nvs |-> IF fail = "none"
             THEN [networks |-> <<nets>>, count |-> <<cnt>>, timestamp |-> <<ts>>]
             ELSE store]

\* wifi_history_save after the s_initialized check.  fail is the nvs_* call
\* that reports an error ("none": all succeed).  A value set before the
\* failing call was never committed: it reaches the flash iff flushed.
wifi_history_save_nvs(nets, cnt, ts, store, fail, flushed) ==
    LET blobbed == [store EXCEPT !.networks = <<nets>>]
        counted == [blobbed EXCEPT !.count = <<cnt>>]
        stamped == [counted EXCEPT !.timestamp = <<ts>>]
    IN  CASE fail = "open"      -> [ret |-> ESP_ERR_NVS, nvs |-> store]
          [] fail = "blob"      -> [ret |-> ESP_ERR_NVS, nvs |-> store]
          [] fail = "count"     -> [ret |-> ESP_ERR_NVS,
                                    nvs |-> IF flushed THEN blobbed ELSE store]
          [] fail = "timestamp" -> [ret |-> ESP_ERR_NVS,
                                    nvs |-> IF flushed THEN counted ELSE store]
          [] fail = "commit"    -> [ret |-> ESP_ERR_NVS,
                                    nvs |-> IF flushed THEN stamped ELSE store]
          [] OTHER              -> [ret |-> ESP_OK, nvs |-> stamped]

\* wifi_history_load on the table mem = [networks, count, next_timestamp].
\* A key that is absent fails its nvs_get_* call; fail names a call that
\* reports an error although the key is there.
wifi_history_load(mem, store, fail) ==
    IF fail = "open" THEN [ret |-> ESP_ERR_NVS, mem |-> mem]
    ELSE IF store.networks = <<>> \/ fail = "blob"
    THEN [ret |-> ESP_ERR_NVS, mem |-> mem]
    ELSE
        LET cnt == IF store.count = <<>> \/ fail = "count"
                   THEN 0 ELSE store.count[1]
            ts  == IF store.timestamp = <<>> \/ fail = "timestamp"
                   THEN 1 ELSE store.timestamp[1]
        IN  [ret |-> ESP_OK,
             mem |-> [networks |-> store.networks[1], count |-> cnt,
                      next_timestamp |-> ts]]

\* ---- the store's operations on the table in memory ------------------------
\* the argument checks of wifi_history_add_network
add_network_args_ok(ssidp, passwordp) ==
    /\ ssidp # NULL
    /\ strlen(Deref(ssidp)) # 0
    /\ strlen(Deref(ssidp)) < WIFI_HISTORY_SSID_MAX_LEN
    /\ (passwordp # NULL => strlen(Deref(passwordp)) < WIFI_HISTORY_PASSWORD_MAX_LEN)

\* mutant: a password or bssid that was not given clears the stored one
set_from_args_clearing(e, passwordp, bssidp, channel, authmode, rssi, ts) ==
    [e EXCEPT !.password = IF passwordp # NULL
                           THEN strlcpy(Deref(passwordp),
                                        WIFI_HISTORY_PASSWORD_MAX_LEN)
                           ELSE <<>>,
              !.bssid = IF bssidp # NULL THEN Deref(bssidp) ELSE ZeroBssid,
              !.channel = channel, !.authmode = authmode, !.rssi = rssi,
              !.last_connected = ts]

\* the fields both branches of wifi_history_add_network set from arguments
set_from_args(e, passwordp, bssidp, channel, authmode, rssi, ts) ==
    LET e1 == IF passwordp # NULL
              THEN [e EXCEPT !.password =
                        strlcpy(Deref(passwordp), WIFI_HISTORY_PASSWORD_MAX_LEN)]
              ELSE e
        e2 == IF bssidp # NULL THEN [e1 EXCEPT !.bssid = Deref(bssidp)] ELSE e1
    IN  [e2 EXCEPT !.channel = channel, !.authmode = authmode, !.rssi = rssi,
                   !.last_connected = ts]

\* mutant: a new record is written over the slot without the memset
add_network_mem_no_memset(nets, cnt, ssidp, passwordp, bssidp, channel, authmode, rssi, ts) ==
    LET index == find_network_index(nets, ssidp)
    IN  IF index >= 0
        THEN [networks |-> [nets EXCEPT ![index] =
                  set_from_args(nets[index], passwordp, bssidp, channel,
                                authmode, rssi, ts)],
              count |-> cnt, slot |-> index, evict |-> FALSE]
        ELSE
            LET empty == find_empty_slot(nets)
                idx == IF empty < 0 THEN find_lowest_priority_slot(nets) ELSE empty
                fresh == [nets[idx] EXCEPT
                             !.ssid = strlcpy(Deref(ssidp), WIFI_HISTORY_SSID_MAX_LEN)]
                e == set_from_args(fresh, passwordp, bssidp, channel, authmode,
                                   rssi, ts)
            IN  [networks |-> [nets EXCEPT ![idx] =
                      [e EXCEPT !.connect_count = 1,
                                !.priority = DefaultPriority,
                                !.is_valid = TRUE]],
                 count |-> IF empty < 0 THEN cnt ELSE U8(cnt + 1),
                 slot |-> idx, evict |-> empty < 0]

\* wifi_history_add_network between the argument checks and the save
add_network_mem(nets, cnt, ssidp, passwordp, bssidp, channel, authmode, rssi, ts) ==
    LET index == find_network_index(nets, ssidp)
    IN  IF index >= 0
        THEN [networks |-> [nets EXCEPT ![index] =
                  set_from_args(nets[index], passwordp, bssidp, channel,
                                authmode, rssi, ts)],
              count |-> cnt, slot |-> index, evict |-> FALSE]
        ELSE
            LET empty == find_empty_slot(nets)
                idx == IF empty < 0 THEN find_lowest_priority_slot(nets) ELSE empty
                fresh == [ZeroEntry EXCEPT
                             !.ssid = strlcpy(Deref(ssidp), WIFI_HISTORY_SSID_MAX_LEN)]
                e == set_from_args(fresh, passwordp, bssidp, channel, authmode,
                                   rssi, ts)
            IN  [networks |-> [nets EXCEPT ![idx] =
                      [e EXCEPT !.connect_count = 1,
                                !.priority = DefaultPriority,
                                !.is_valid = TRUE]],
                 count |-> IF empty < 0 THEN cnt ELSE U8(cnt + 1),
                 slot |-> idx, evict |-> empty < 0]

\* the priority wifi_history_update_success stores for a connect count:
\* uint32_t arithmetic assigned to the uint8_t field
success_priority(connect_count) ==
    U8(DefaultPriority + (connect_count - 1) * PriorityStep)

\* mutant: the update leaves the record as it was
update_success_mem_noop(nets, index, ts) == nets

\* wifi_history_update_success between the lookup and the save
update_success_mem(nets, index, ts) ==
    LET e == nets[index]
        cc == e.connect_count + 1
        pr == IF cc > 1 THEN success_priority(cc) ELSE e.priority
    IN  sort_networks_by_priority(
            [nets EXCEPT ![index] =
                [e EXCEPT !.last_connected = ts, !.connect_count = cc,
                          !.priority = pr]])

\* mutant: the copy loop takes the first slots, valid or not
copy_slots(nets, max_count, i, out) ==
    [k \in 1 .. Min(max_count, WIFI_HISTORY_MAX_NETWORKS) |-> nets[k - 1]]

\* the copy loop of wifi_history_get_networks from slot i, with out filled
RECURSIVE copy_valid(_, _, _, _)
copy_valid(nets, max_count, i, out) ==
    IF i < WIFI_HISTORY_MAX_NETWORKS /\ Len(out) < max_count
    THEN copy_valid(nets, max_count, i + 1,
                    IF nets[i].is_valid THEN Append(out, nets[i]) ELSE out)
    ELSE out

\* ---- the store's operations as steps ---------------------------------------
\* what `last` records of an operation
Report(op, arg, ret, slot, evict, out) ==
    [op |-> op, arg |-> arg, ret |-> ret, slot |-> slot, evict |-> evict,
     out |-> out]

\* the nvs_* call that fails in this step, within the budget of failures
FailChoice(points) == {"none"} \cup (IF budget > 0 THEN points ELSE {})

\* the tail of every mutating operation: return wifi_history_save()
\* (s_initialized holds here), with the table already changed in memory
SaveAndReturn(op, arg, nets, cnt, ts, slot, evict, out) ==
    \E fail \in FailChoice(SaveFailPoints), flushed \in BOOLEAN :
        LET r == wifi_history_save_nvs(nets, cnt, ts, nvs, fail, flushed)
        IN  /\ (flushed = FALSE \/ fail \in {"count", "timestamp", "commit"})
            /\ networks' = nets
            /\ count' = cnt
            /\ next_timestamp' = ts
            /\ nvs' = r.nvs
            /\ budget' = IF fail = "none" THEN budget ELSE budget - 1
            /\ last' = Report(op, arg, r.ret, slot, evict, out)
            /\ saved' = IF r.ret = ESP_OK
                        THEN <<[networks |-> nets, count |-> cnt]>> ELSE <<>>
            /\ UNCHANGED <<s_initialized, now>>

\* an operation that returns ret and changes nothing; out is what the report
\* keeps besides the first argument
ReturnWith(op, arg, ret, out) ==
    /\ last' = Report(op, arg, ret, -1, FALSE, out)
    /\ UNCHANGED <<networks, count, next_timestamp, s_initialized, nvs, now, budget,
                   saved>>

ReturnOnly(op, arg, ret) == ReturnWith(op, arg, ret, <<>>)

wifi_history_init ==
    IF s_initialized THEN ReturnOnly("init_again", NULL, ESP_OK)
    ELSE
        \E fail \in FailChoice(LoadFailPoints) :
            LET zero == [networks |-> ZeroTable, count |-> 0, next_timestamp |-> 0]
                r == wifi_history_load(zero, nvs, fail)
            IN  /\ networks' = r.mem.networks
                /\ count' = r.mem.count
                /\ next_timestamp' = r.mem.next_timestamp
                /\ s_initialized' = TRUE
                /\ budget' = IF fail = "none" THEN budget ELSE budget - 1
                /\ last' = Report("init", NULL, ESP_OK, -1, FALSE, <<>>)
                /\ UNCHANGED <<nvs, now, saved>>

\* what the report keeps of the arguments of wifi_history_add_network
AddArgs(passwordp, bssidp, channel, authmode, rssi) ==
    <<[password |-> passwordp, bssid |-> bssidp, channel |-> channel,
       authmode |-> authmode, rssi |-> rssi]>>

wifi_history_add_network(ssidp, passwordp, bssidp, channel, authmode, rssi) ==
    IF ~s_initialized
    THEN ReturnWith("add", ssidp, ESP_ERR_INVALID_STATE, AddArgs(passwordp, bssidp, channel, authmode, rssi))
    ELSE IF ~add_network_args_ok(ssidp, passwordp)
    THEN ReturnWith("add", ssidp, ESP_ERR_INVALID_ARG, AddArgs(passwordp, bssidp, channel, authmode, rssi))
    ELSE
        LET m == add_network_mem(networks, count, ssidp, passwordp, bssidp,
                                 channel, authmode, rssi, get_timestamp)
        IN  SaveAndReturn("add", ssidp, m.networks, m.count, next_timestamp,
                          m.slot, m.evict, AddArgs(passwordp, bssidp, channel, authmode, rssi))

wifi_history_update_success(ssidp) ==
    IF ~s_initialized THEN ReturnOnly("success", ssidp, ESP_ERR_INVALID_STATE)
    ELSE IF ssidp = NULL THEN ReturnOnly("success", ssidp, ESP_ERR_INVALID_ARG)
    ELSE
        LET index == find_network_index(networks, ssidp)
        IN  IF index < 0 THEN ReturnOnly("success", ssidp, ESP_ERR_NOT_FOUND)
            ELSE SaveAndReturn("success", ssidp,
                               update_success_mem(networks, index, get_timestamp),
                               count, next_timestamp, index, FALSE, <<>>)

\* networks and count are the caller's buffer and its size: both non-NULL
wifi_history_get_networks(max_count) ==
    IF ~s_initialized THEN ReturnOnly("list", Ptr(max_count), ESP_ERR_INVALID_STATE)
    ELSE
        LET sorted == sort_networks_by_priority(networks)
        IN  /\ networks' = sorted
            /\ last' = Report("list", Ptr(max_count), ESP_OK, -1, FALSE,
                              copy_valid(sorted, max_count, 0, <<>>))
            /\ UNCHANGED <<count, next_timestamp, s_initialized, nvs, now, budget,
                           saved>>

\* mutant: a name that is not in the table is removed all the same
wifi_history_remove_network_blind(ssidp) ==
    IF ~s_initialized THEN ReturnOnly("remove", ssidp, ESP_ERR_INVALID_STATE)
    ELSE IF ssidp = NULL THEN ReturnOnly("remove", ssidp, ESP_ERR_INVALID_ARG)
    ELSE
        LET index == find_network_index(networks, ssidp)
        IN  SaveAndReturn("remove", ssidp,
                          IF index < 0 THEN networks
                          ELSE [networks EXCEPT ![index] = ZeroEntry],
                          U8(count - 1), next_timestamp, index, FALSE, <<>>)

wifi_history_remove_network(ssidp) ==
    IF ~s_initialized THEN ReturnOnly("remove", ssidp, ESP_ERR_INVALID_STATE)
    ELSE IF ssidp = NULL THEN ReturnOnly("remove", ssidp, ESP_ERR_INVALID_ARG)
    ELSE
        LET index == find_network_index(networks, ssidp)
        IN  IF index < 0 THEN ReturnOnly("remove", ssidp, ESP_ERR_NOT_FOUND)
            ELSE SaveAndReturn("remove", ssidp,
                               [networks EXCEPT ![index] = ZeroEntry],
                               U8(count - 1), next_timestamp, index, FALSE, <<>>)

wifi_history_clear_all ==
    IF ~s_initialized THEN ReturnOnly("clear", NULL, ESP_ERR_INVALID_STATE)
    ELSE SaveAndReturn("clear", NULL, ZeroTable, 0, 1, -1, FALSE, <<>>)

\* ---- the radio driver as the code sees it -----------------------------------
\* wifi_config_t.sta after wifi_config_t wifi_config = {0}
ZeroStaConfig ==
    [ssid |-> <<>>, password |-> <<>>, bssid_set |-> FALSE, bssid |-> ZeroBssid,
     channel |-> 0]

\* one call to the radio driver, with the station configuration it carries
\* (the one passed to esp_wifi_set_config, the active one for esp_wifi_connect)
Call(fn, cfg) == [fn |-> fn, cfg |-> cfg]

MAX_RETRY_COUNT == 5
\* sizeof(wifi_config.sta.ssid), sizeof(wifi_config.sta.password)
StaSsidSize == 32
StaPasswordSize == 64
\* the signal floors of the two selection routines
AutoConnectFloor == -85
FindBestFloor == -80
\* best_rssi before the first candidate
InitialBestRssi == -100

\* disconnect reasons by the branch of the handler they take
NotFoundReasons == {"WIFI_REASON_NO_AP_FOUND"}
AuthReasons == {"WIFI_REASON_AUTH_FAIL", "WIFI_REASON_4WAY_HANDSHAKE_TIMEOUT"}
GenericReasons == {"WIFI_REASON_BEACON_TIMEOUT", "WIFI_REASON_HANDSHAKE_TIMEOUT"}
Reasons == NotFoundReasons \cup AuthReasons \cup GenericReasons

\* ---- wifi_event_handler -------------------------------------------------------
NoStreak == [k |-> -1, connects |-> 0, issued |-> 0]
FreshStreak == [k |-> 0, connects |-> 0, issued |-> 0]

\* the esp_wifi_connect calls among cs
NumConnects(cs) == Len(SelectSeq(cs, LAMBDA c : c.fn = "connect"))

\* mutant: the handler of WIFI_EVENT_STA_START connects
sta_start_calls_connect(cfg) == <<Call("connect", cfg)>>

\* the driver calls of the WIFI_EVENT_STA_START case: none
sta_start_calls(cfg) == <<>>

\* WIFI_EVENT_STA_START: only a log line
OnStaStart ==
    /\ calls' = sta_start_calls(sta_config)
    /\ ReturnOnly("sta_start", NULL, ESP_OK)
    /\ UNCHANGED <<orchVars, sta_config, assoc, taskVars>>

\* WIFI_EVENT_STA_CONNECTED.  ap_ok, cfg_ok: esp_wifi_sta_get_ap_info and
\* esp_wifi_get_config return ESP_OK
OnStaConnected ==
    /\ s_retry_num' = 0
    /\ streak' = FreshStreak
    /\ assoc' = TRUE
    /\ calls' = <<>>
    /\ \E ap_ok \in BOOLEAN, cfg_ok \in BOOLEAN :
          /\ IF ap_ok /\ cfg_ok
             THEN wifi_history_update_success(Ptr(sta_config.ssid))
             ELSE ReturnOnly("sta_connected", NULL, ESP_OK)
    /\ UNCHANGED <<mdns_initialized, wifi_state, sta_config, taskVars>>

\* what the handler writes to namespace wifi_state when nvs_open succeeds
set_connection_failed(v, open_ok) == IF open_ok THEN <<v>> ELSE wifi_state

\* the two conditions that decide whether the handler reconnects
is_auth_failure_only(reason) == reason = "WIFI_REASON_AUTH_FAIL"

is_auth_failure(reason) == reason \in AuthReasons

may_retry_unpinned_any(retry) == retry >= 0

\* mutant: the AP-not-found branch reconnects a third time
may_retry_unpinned_thrice(retry) == retry < 3

\* the bound on reconnects of the AP-not-found branch
may_retry_unpinned(retry) == retry < 2

may_retry_once_more(retry) == retry <= MAX_RETRY_COUNT

\* mutant: the generic branch reconnects whatever the counter says
may_retry_always(retry) == TRUE

may_retry(retry) == retry < MAX_RETRY_COUNT

\* WIFI_EVENT_STA_DISCONNECTED with event->reason = reason.
\* cfg_ok, set_ok: esp_wifi_get_config / esp_wifi_set_config return ESP_OK;
\* open_ok: nvs_open("wifi_state") returns ESP_OK
disconnected_effect(reason, retry, cfg, cfg_ok, set_ok, open_ok) ==
    LET unpinned == [cfg EXCEPT !.bssid_set = FALSE, !.bssid = ZeroBssid]
        active == IF set_ok THEN unpinned ELSE cfg
    IN  IF reason \in NotFoundReasons
        THEN IF cfg_ok /\ cfg.bssid_set /\ may_retry_unpinned(retry)
             THEN [retry |-> retry + 1, cfg |-> active,
                   calls |-> <<Call("set_config", unpinned), Call("connect", active)>>,
                   state |-> wifi_state,
                   faults |-> IF set_ok THEN {} ELSE {"set_config"}]
             ELSE [retry |-> MAX_RETRY_COUNT, cfg |-> cfg, calls |-> <<>>,
                   state |-> wifi_state,
                   faults |-> IF cfg_ok THEN {} ELSE {"get_config"}]
        ELSE IF is_auth_failure(reason)
        THEN [retry |-> MAX_RETRY_COUNT, cfg |-> cfg, calls |-> <<>>,
              state |-> wifi_state, faults |-> {}]
        ELSE IF may_retry(retry)
        THEN [retry |-> retry + 1, cfg |-> cfg,
              calls |-> <<Call("connect", cfg)>>, state |-> wifi_state,
              faults |-> {}]
        ELSE [retry |-> retry, cfg |-> cfg, calls |-> <<>>,
              state |-> set_connection_failed(1, open_ok),
              faults |-> IF open_ok THEN {} ELSE {"nvs_open"}]

OnStaDisconnected(reason) ==
    /\ \E cfg_ok \in BOOLEAN, set_ok \in BOOLEAN, open_ok \in BOOLEAN :
          LET r == disconnected_effect(reason, s_retry_num, sta_config, cfg_ok,
                                       set_ok, open_ok)
          IN  /\ s_retry_num' = r.retry
              /\ sta_config' = r.cfg
              /\ calls' = r.calls
              /\ wifi_state' = r.state
              /\ last' = Report("sta_disconnected", reason, ESP_OK, -1, FALSE,
                                <<[retry |-> s_retry_num, faults |-> r.faults]>>)
    /\ assoc' = FALSE
    /\ streak' = IF reason \notin NotFoundReasons \cup AuthReasons /\ streak.k >= 0
                 THEN [k |-> Min(streak.k + 1, MaxStreak),
                       connects |-> Min(streak.connects + Len(calls'), MaxStreak),
                       issued |-> Min(streak.issued + NumConnects(calls'), MaxStreak)]
                 ELSE [NoStreak EXCEPT
                          !.issued = Min(streak.issued + NumConnects(calls'), MaxStreak)]
    /\ UNCHANGED <<networks, count, next_timestamp, s_initialized, nvs, now, budget,
                   saved>>
    /\ UNCHANGED <<mdns_initialized, taskVars>>

\* mutant: every IP_EVENT_STA_GOT_IP starts the mDNS service
mdns_start_calls_always(initialized) == <<Call("esp_mdns_start", ZeroStaConfig)>>

\* if (!mdns_initialized) esp_mdns_start()
mdns_start_calls(initialized) ==
    IF initialized THEN <<>> ELSE <<Call("esp_mdns_start", ZeroStaConfig)>>

\* IP_EVENT_STA_GOT_IP
OnGotIp ==
    /\ s_retry_num' = 0
    /\ streak' = FreshStreak
    /\ \E open_ok \in BOOLEAN :
          /\ wifi_state' = set_connection_failed(0, open_ok)
          /\ ReturnWith("got_ip", NULL, ESP_OK,
                        <<[retry |-> s_retry_num,
                           faults |-> IF open_ok THEN {} ELSE {"nvs_open"}]>>)
    /\ mdns_initialized' = TRUE
    /\ calls' = mdns_start_calls(mdns_initialized)
    /\ UNCHANGED <<sta_config, assoc, taskVars>>

wifi_reset_connection_retry ==
    /\ s_retry_num' = 0
    /\ streak' = FreshStreak
    /\ \E open_ok \in BOOLEAN : wifi_state' = set_connection_failed(0, open_ok)
    /\ calls' = <<>>
    /\ ReturnOnly("reset_retry", NULL, ESP_OK)
    /\ UNCHANGED <<mdns_initialized, sta_config, assoc, taskVars>>

\* ---- selection and the auto-connect sequence --------------------------------
ESP_ERR_NO_MEM == "ESP_ERR_NO_MEM"
\* any error the radio driver reports
ESP_ERR_WIFI == "ESP_ERR_WIFI"

\* memcmp(a, b, 6) == 0
bssid_equal_5(a, b) == \A k \in 1 .. 5 : a[k] = b[k]

bssid_equal(a, b) == \A k \in 1 .. 6 : a[k] = b[k]

\* the threshold test of the selection loop of wifi_history_auto_connect
viable_or_equal(rssi) == rssi >= AutoConnectFloor

viable(rssi) == rssi > AutoConnectFloor

\* the threshold test of wifi_history_find_best_network
acceptable(rssi) == rssi > FindBestFloor

\* inner loop of wifi_history_find_best_network over the scan from entry j:
\* the first entry of that name whose signal is acceptable, 0 if none
RECURSIVE find_best_match(_, _, _)
find_best_match(aps, ssid, j) ==
    IF j > Len(aps) THEN 0
    ELSE IF aps[j].ssid = ssid /\ acceptable(aps[j].rssi) THEN j
    ELSE find_best_match(aps, ssid, j + 1)

\* outer loop of wifi_history_find_best_network over the sorted table
RECURSIVE find_best_from(_, _, _)
find_best_from(nets, aps, i) ==
    IF i >= WIFI_HISTORY_MAX_NETWORKS THEN <<>>
    ELSE IF ~nets[i].is_valid THEN find_best_from(nets, aps, i + 1)
    ELSE LET j == find_best_match(aps, nets[i].ssid, 1)
         IN  IF j > 0 THEN <<[net |-> nets[i], ap |-> aps[j]]>>
             ELSE find_best_from(nets, aps, i + 1)

\* inner loop of the selection in wifi_history_auto_connect: the first scan
\* entry of that name above the floor (the loop breaks there), 0 if none
RECURSIVE auto_match(_, _, _)
auto_match(aps, ssid, j) ==
    IF j > Len(aps) THEN 0
    ELSE IF aps[j].ssid = ssid /\ viable(aps[j].rssi) THEN j
    ELSE auto_match(aps, ssid, j + 1)

\* outer loop of the selection, with found_network / best_rssi / best_network /
\* best_ap_record in best.  best_network is uninitialized until the first
\* candidate; its priority is read only when a candidate's rssi equals
\* best_rssi, which no candidate above the floor does before the first.
RECURSIVE auto_select_from(_, _, _, _)
auto_select_from(nets, aps, i, best) ==
    IF i >= WIFI_HISTORY_MAX_NETWORKS THEN best
    ELSE IF ~nets[i].is_valid THEN auto_select_from(nets, aps, i + 1, best)
    ELSE LET j == auto_match(aps, nets[i].ssid, 1)
         IN  IF j = 0 THEN auto_select_from(nets, aps, i + 1, best)
             ELSE IF \/ aps[j].rssi > best.rssi
                     \/ /\ aps[j].rssi = best.rssi
                        /\ nets[i].priority > best.net.priority
                  THEN auto_select_from(nets, aps, i + 1,
                           [found |-> TRUE, rssi |-> aps[j].rssi,
                            net |-> nets[i], ap |-> aps[j]])
                  ELSE auto_select_from(nets, aps, i + 1, best)

auto_select(nets, aps) ==
    auto_select_from(nets, aps, 0,
        [found |-> FALSE, rssi |-> InitialBestRssi, net |-> ZeroEntry,
         ap |-> [ssid |-> <<>>, rssi |-> 0, bssid |-> ZeroBssid, primary |-> 0]])

\* the station configuration wifi_history_auto_connect builds
auto_connect_config(net, ap) ==
    LET has_valid_historical_bssid == \E k \in 1 .. 6 : net.bssid[k] # 0
        base == [ZeroStaConfig EXCEPT
                    !.ssid = strlcpy(net.ssid, StaSsidSize),
                    !.password = strlcpy(net.password, StaPasswordSize),
                    !.channel = ap.primary]
    IN  IF has_valid_historical_bssid /\ bssid_equal(net.bssid, ap.bssid)
        THEN [base EXCEPT !.bssid = ap.bssid, !.bssid_set = TRUE]
        ELSE [base EXCEPT !.bssid = ZeroBssid, !.bssid_set = FALSE]

\* the driver calls that can fail in wifi_history_auto_connect:
\*   scan          esp_wifi_scan_start fails, not with ESP_ERR_WIFI_STATE
\*   scan_state    it fails with ESP_ERR_WIFI_STATE, the second scan succeeds
\*   scan_twice    it fails with ESP_ERR_WIFI_STATE, the second scan fails too
\*   malloc, records, set_config, connect: that call fails
\*   connect_set_config, connect_twice: esp_wifi_connect fails, then the
\*     fallback's esp_wifi_set_config / esp_wifi_connect fails
ScanFailPoints == {"scan", "scan_state", "scan_twice", "malloc", "records"}
ConnectFailPoints == {"set_config", "connect", "connect_set_config", "connect_twice"}
AutoFailPoints == {"none"} \cup ScanFailPoints \cup ConnectFailPoints

\* mutant: a rejected connect is repeated whether or not it was pinned
retry_without_bssid_always(cfg) == TRUE

\* if (wifi_config.sta.bssid_set) after a rejected esp_wifi_connect
retry_without_bssid(cfg) == cfg.bssid_set

\* wifi_history_auto_connect after the s_initialized and mode checks:
\* the calls made, the result, the selection and the active configuration
auto_connect_run(nets, aps, cfg0, was_connected, fail) ==
    LET none == ZeroStaConfig
        pre == (IF was_connected THEN <<Call("disconnect", none)>> ELSE <<>>)
               \o <<Call("scan_stop", none), Call("scan_start", none)>>
        scanned == IF fail \in {"scan_state", "scan_twice"}
                   THEN pre \o <<Call("disconnect", none), Call("scan_start", none)>>
                   ELSE pre
        best == auto_select(nets, aps)
        sel == IF best.found THEN <<[net |-> best.net, ap |-> best.ap]>> ELSE <<>>
        cfg == auto_connect_config(best.net, best.ap)
        unpinned == [cfg EXCEPT !.bssid_set = FALSE, !.bssid = ZeroBssid]
        Out(ret, cs, s, active) == [ret |-> ret, calls |-> cs, sel |-> s, cfg |-> active]
    IN  IF fail \in {"scan", "scan_twice"} THEN Out(ESP_ERR_WIFI, scanned, <<>>, cfg0)
        ELSE IF Len(aps) = 0 THEN Out(ESP_ERR_NOT_FOUND, scanned, <<>>, cfg0)
        ELSE IF fail = "malloc" THEN Out(ESP_ERR_NO_MEM, scanned, <<>>, cfg0)
        ELSE IF fail = "records" THEN Out(ESP_ERR_WIFI, scanned, <<>>, cfg0)
        ELSE IF ~best.found THEN Out(ESP_ERR_NOT_FOUND, scanned, <<>>, cfg0)
        ELSE IF fail = "set_config"
        THEN Out(ESP_ERR_WIFI, scanned \o <<Call("set_config", cfg)>>, sel, cfg0)
        ELSE LET tried == scanned \o <<Call("set_config", cfg), Call("connect", cfg)>>
             IN  IF fail \notin {"connect", "connect_set_config", "connect_twice"}
                 THEN Out(ESP_OK, tried, sel, cfg)
                 ELSE IF ~retry_without_bssid(cfg) THEN Out(ESP_ERR_WIFI, tried, sel, cfg)
                 ELSE IF fail = "connect_set_config"
                 THEN Out(ESP_ERR_WIFI, tried \o <<Call("set_config", unpinned)>>,
                          sel, cfg)
                 ELSE Out(IF fail = "connect_twice" THEN ESP_ERR_WIFI ELSE ESP_OK,
                          tried \o <<Call("set_config", unpinned),
                                     Call("connect", unpinned)>>,
                          sel, unpinned)

\* esp_wifi_get_mode: wifi_init_softap sets WIFI_MODE_APSTA before any caller
mode_has_sta == TRUE

\* aps: what esp_wifi_scan_get_ap_records returns
wifi_history_auto_connect(aps, fail) ==
    IF ~s_initialized \/ ~mode_has_sta
    THEN /\ ReturnOnly("auto", [aps |-> aps, fail |-> fail], ESP_ERR_INVALID_STATE)
         /\ calls' = <<>>
         /\ UNCHANGED <<sta_config, assoc>>
    ELSE LET r == auto_connect_run(networks, aps, sta_config, assoc, fail)
         IN  /\ last' = Report("auto", [aps |-> aps, fail |-> fail], r.ret, -1, FALSE,
                               r.sel)
             /\ calls' = r.calls
             /\ sta_config' = r.cfg
             /\ assoc' = FALSE
             /\ UNCHANGED <<networks, count, next_timestamp, s_initialized, nvs,
                            now, budget, saved>>

\* available_networks / network_count: the caller's scan, best_network non-NULL
wifi_history_find_best_network(aps) ==
    IF ~s_initialized THEN ReturnOnly("find_best", aps, ESP_ERR_INVALID_STATE)
    ELSE IF Len(aps) = 0 THEN ReturnOnly("find_best", aps, ESP_ERR_INVALID_ARG)
    ELSE
        LET sorted == sort_networks_by_priority(networks)
            sel == find_best_from(sorted, aps, 0)
        IN  /\ networks' = sorted
            /\ last' = Report("find_best", aps,
                              IF sel = <<>> THEN ESP_ERR_NOT_FOUND ELSE ESP_OK,
                              -1, FALSE, sel)
            /\ UNCHANGED <<count, next_timestamp, s_initialized, nvs, now, budget,
                           saved>>

\* ---- the two tasks ------------------------------------------------------------
\* nobody is inside wifi_history_update_success / inside the selection walk
IdleUpdater == [pc |-> "idle"]
IdleWalker == [pc |-> "idle"]

\* namespace "wifi_config" on an erased flash: no key exists
EmptyWifiConfig == [sta_config |-> <<>>, connection_failed |-> <<>>]

\* ---- wifi_auto_connect_task ---------------------------------------------------
\* the cap on failed attempts before the cooldown
MaxFailedAttempts == 3

under_cap_or_at(failed) == failed <= MaxFailedAttempts

under_cap(failed) == failed < MaxFailedAttempts

count_failure_twice(failed) == failed + 2

\* failed_attempts++
count_failure(failed) == failed + 1

probe_in_progress_never(wifi_status) == FALSE

\* wifi_state == ESP_ERR_WIFI_CONN for the result of the probing esp_wifi_connect
probe_in_progress(wifi_status) == wifi_status = "ESP_ERR_WIFI_CONN"

\* what the probing esp_wifi_connect can return
ProbeResults == {ESP_OK, "ESP_ERR_WIFI_CONN", ESP_ERR_WIFI}

\* mutant: an address alone makes the pass take the device as connected
is_connected_ip_only(has_ip, ap_info_ok) == has_ip

\* is_connected && esp_wifi_sta_get_ap_info(&ap_info) == ESP_OK
is_connected_now(has_ip, ap_info_ok) == has_ip /\ ap_info_ok

\* the report of one pass through the loop: the branch it took, the inputs that
\* branch read, and failed_attempts on entry
CycleReport(has_ip, branch, probe, aps, fail, ret, sel) ==
    Report("cycle",
           [has_ip |-> has_ip, branch |-> branch, probe |-> probe, aps |-> aps,
            fail |-> fail, before |-> failed_attempts],
           ret, -1, FALSE, sel)

\* one pass through the while (1) of wifi_auto_connect_task, ending at the
\* vTaskDelay before the next pass.  has_ip: esp_netif_get_ip_info reports an
\* address; probe: the result of the probing esp_wifi_connect; aps, fail: the
\* scan and the failing driver call of wifi_history_auto_connect.
\* The task exists once wifi_init_softap has initialized the history.
wifi_auto_connect_cycle(has_ip, probe, aps, fail) ==
    /\ s_initialized
    /\ LET probe_call == <<Call("connect", sta_config)>>
       IN  IF is_connected_now(has_ip, assoc)
           THEN /\ failed_attempts' = 0
                /\ calls' = <<>>
                /\ last' = CycleReport(has_ip, "connected", "none", <<>>, "none", ESP_OK, <<>>)
                /\ UNCHANGED <<sta_config, assoc>>
           ELSE IF mode_has_sta /\ probe_in_progress(probe)
           THEN /\ failed_attempts' = failed_attempts
                /\ calls' = probe_call
                /\ last' = CycleReport(has_ip, "connecting", probe, <<>>, "none", ESP_OK, <<>>)
                /\ UNCHANGED <<sta_config, assoc>>
           ELSE IF under_cap(failed_attempts)
           THEN LET r == auto_connect_run(networks, aps, sta_config, assoc, fail)
                IN  /\ failed_attempts' = IF r.ret = ESP_OK THEN 0
                                          ELSE count_failure(failed_attempts)
                    /\ calls' = probe_call \o r.calls
                    /\ sta_config' = r.cfg
                    /\ assoc' = FALSE
                    /\ last' = CycleReport(has_ip, "attempt", probe, aps, fail, r.ret, r.sel)
           ELSE /\ failed_attempts' = 0
                /\ calls' = probe_call
                /\ last' = CycleReport(has_ip, "cooldown", probe, <<>>, "none", ESP_OK, <<>>)
                /\ UNCHANGED <<sta_config, assoc>>
    /\ UNCHANGED <<networks, count, next_timestamp, s_initialized, nvs, now, budget,
                   saved>>
    /\ UNCHANGED <<orchVars, wifi_config, usb, ws, updater, walker>>

\* ---- usbd_cdc.c and web_socket.c: the statics after a reset -------------------
NULL_HANDLE == 0

\* static cdc_dev_context_t s_cdc_dev = {0}; alive: the mutex objects that
\* exist; owner: the task that has taken the mutex s_cdc_dev.mutex names;
\* tx: the tasks inside cdc_acm_host_data_tx_blocking
FreshUsb ==
    [mutex |-> NULL_HANDLE, state |-> "DISCONNECTED", cdc_hdl |-> NULL_HANDLE,
     is_initialized |-> FALSE, alive |-> {}, owner |-> 0, tx |-> {}]

\* static ws_ctx_t ws_ctx = {0}; queue: the messages in msg_queue; held: the
\* message ws_send_task has received; frees: how often each buffer malloc
\* returned was freed; fate: what became of it; enqueued, taken, sent: the
\* buffers in the order they entered the queue, left it and went out
FreshWs ==
    [server |-> NULL_HANDLE, msg_queue |-> NULL_HANDLE, task_handle |-> NULL_HANDLE,
     connected |-> FALSE, client_fd |-> 0, queue |-> <<>>, held |-> <<>>,
     frees |-> <<>>, fate |-> <<>>, enqueued |-> <<>>, taken |-> <<>>,
     sent |-> <<>>]

\* ---- boot ---------------------------------------------------------------------
\* what wifi_init_softap finds in namespace "wifi_config": whether the blob
\* sta_config is there, and the byte connection_failed (0 when the key is absent:
\* the result of nvs_get_u8 is ignored and the variable starts at 0)
saved_sta_config(store) ==
    [found |-> store.sta_config # <<>>,
     connection_failed |-> IF store.connection_failed = <<>> THEN 0
                           ELSE store.connection_failed[1]]

\* wifi_init_softap: station configuration from the flash, wifi_history_init,
\* esp_wifi_start, and the auto-connect task created with failed_attempts = 0.
\* nvs_open fails on a namespace that holds no key.
wifi_init_softap ==
    /\ ~s_initialized
    /\ LET saved_cfg == saved_sta_config(wifi_config)
           apply == saved_cfg.found /\ saved_cfg.connection_failed = 0
       IN  /\ calls' = IF apply
                       THEN <<Call("set_config", wifi_config.sta_config[1])>>
                       ELSE <<>>
           /\ sta_config' = IF apply THEN wifi_config.sta_config[1] ELSE sta_config
    /\ wifi_history_init
    /\ failed_attempts' = 0
    /\ UNCHANGED <<orchVars, assoc, wifi_config, usb, ws, updater, walker>>

\* ---- time and power ---------------------------------------------------------
\* esp_timer advances by a second
Tick ==
    /\ now < MaxTime
    /\ now' = now + 1
    /\ last' = Report("tick", NULL, ESP_OK, -1, FALSE, <<>>)
    /\ UNCHANGED <<networks, count, next_timestamp, s_initialized, nvs, budget, saved>>
    /\ UNCHANGED <<orchVars, drvVars, taskVars>>

\* power cycle: statics are zero again, the timer restarts, the flash stays
\* (the driver keeps its station configuration in flash as well)
Reboot ==
    /\ networks' = ZeroTable
    /\ count' = 0
    /\ next_timestamp' = 0
    /\ s_initialized' = FALSE
    /\ now' = 0
    /\ last' = Report("boot", NULL, ESP_OK, -1, FALSE, <<>>)
    /\ s_retry_num' = 0
    /\ mdns_initialized' = FALSE
    /\ streak' = FreshStreak
    /\ assoc' = FALSE
    /\ calls' = <<>>
    /\ failed_attempts' = 0
    /\ updater' = IdleUpdater
    /\ walker' = IdleWalker
    /\ usb' = FreshUsb
    /\ ws' = FreshWs
    /\ UNCHANGED <<nvs, budget, saved, wifi_state, sta_config, wifi_config>>

\* ---- specifications ---------------------------------------------------------
vars == <<networks, count, next_timestamp, s_initialized, nvs, now, budget, last,
          saved, s_retry_num, mdns_initialized, wifi_state, sta_config, assoc,
          calls, streak, failed_attempts, wifi_config, usb, ws, updater, walker>>

\* a device out of the factory: erased flash, statics zero
FreshDevice ==
    /\ networks = ZeroTable
    /\ count = 0
    /\ next_timestamp = 0
    /\ s_initialized = FALSE
    /\ nvs = EmptyNvs
    /\ now = 0
    /\ last = Report("boot", NULL, ESP_OK, -1, FALSE, <<>>)
    /\ saved = <<>>
    /\ s_retry_num = 0
    /\ mdns_initialized = FALSE
    /\ wifi_state = <<>>
    /\ sta_config = ZeroStaConfig
    /\ assoc = FALSE
    /\ calls = <<>>
    /\ streak = FreshStreak
    /\ failed_attempts = 0
    /\ updater = IdleUpdater
    /\ walker = IdleWalker
    /\ usb = FreshUsb
    /\ ws = FreshWs

\* the arguments callers pass besides the name
PlainArgs ==
    [password |-> NULL, bssid |-> NULL, channel |-> 1, authmode |-> 0, rssi |-> -70]
FullArgs ==
    [password |-> Ptr(<<"p", "w">>), bssid |-> Ptr(BssidA), channel |-> 6,
     authmode |-> 3, rssi |-> -50]

SsidArgs == {Ptr(s) : s \in Ssids}
TwoSsids == {Ptr(SsidPool[1]), Ptr(SsidPool[2])}

InitStep == wifi_history_init /\ UNCHANGED <<orchVars, drvVars, taskVars>>

AddStep(ssidps, profiles) ==
    /\ \E ssidp \in ssidps, a \in profiles :
          wifi_history_add_network(ssidp, a.password, a.bssid, a.channel,
                                   a.authmode, a.rssi)
    /\ UNCHANGED <<orchVars, drvVars, taskVars>>

\* the model stops counting connections of a record at cap
BelowCap(ssidp, cap) ==
    \A i \in Slots :
        networks[i].is_valid /\ networks[i].ssid = Deref(ssidp)
            => networks[i].connect_count < cap

SuccessStep(ssidps, cap) ==
    /\ \E ssidp \in ssidps :
          /\ BelowCap(ssidp, cap)
          /\ wifi_history_update_success(ssidp)
    /\ UNCHANGED <<orchVars, drvVars, taskVars>>

ListStep ==
    /\ \E max_count \in 0 .. (WIFI_HISTORY_MAX_NETWORKS + 1) :
          wifi_history_get_networks(max_count)
    /\ UNCHANGED <<orchVars, drvVars, taskVars>>

RemoveStep(ssidps) ==
    /\ \E ssidp \in ssidps : wifi_history_remove_network(ssidp)
    /\ UNCHANGED <<orchVars, drvVars, taskVars>>

ClearStep == wifi_history_clear_all /\ UNCHANGED <<orchVars, drvVars, taskVars>>

\* Spec: the store over reboots, on a flash that never fails
Init == FreshDevice /\ budget = 0 /\ wifi_config = EmptyWifiConfig

Next ==
    \/ InitStep
    \/ AddStep(SsidArgs, {PlainArgs})
    \/ SuccessStep(SsidArgs, MaxConnectCount)
    \/ ListStep
    \/ RemoveStep(SsidArgs)
    \/ ClearStep
    \/ Tick
    \/ Reboot

Spec == Init /\ [][Next]_vars

\* SpecNvs: the store over reboots, on a flash whose nvs_* calls can fail
InitNvs == FreshDevice /\ budget = MaxFaults /\ wifi_config = EmptyWifiConfig

NextNvs ==
    \/ InitStep
    \/ AddStep(SsidArgs, {PlainArgs})
    \/ SuccessStep(SsidArgs, MaxConnectCount)
    \/ RemoveStep(SsidArgs)
    \/ ClearStep
    \/ Reboot

SpecNvs == InitNvs /\ [][NextNvs]_vars

\* SpecSuccess: two networks that connect again and again within one boot
NextSuccess ==
    \/ InitStep
    \/ AddStep(TwoSsids, {PlainArgs})
    \/ SuccessStep(TwoSsids, MaxSuccessCount)
    \/ ListStep

SpecSuccess == Init /\ [][NextSuccess]_vars

\* scans of up to n access points drawn from aps
RECURSIVE ScansUpTo(_, _)
ScansUpTo(aps, n) ==
    IF n = 0 THEN {<<>>}
    ELSE LET shorter == ScansUpTo(aps, n - 1)
         IN  shorter \cup {Append(sq, ap) : sq \in shorter, ap \in aps}

ApRecords(ssidps, rssis, stations) ==
    {[ssid |-> Deref(sp), rssi |-> r, bssid |-> b.bssid, primary |-> b.primary] :
        sp \in ssidps, r \in rssis, b \in stations}

StationA == [bssid |-> BssidA, primary |-> 6]
StationB == [bssid |-> BssidB, primary |-> 11]

AutoConnectStep(scans, fails) ==
    /\ \E aps \in scans, fail \in fails : wifi_history_auto_connect(aps, fail)
    /\ UNCHANGED <<orchVars, taskVars>>

FindBestStep(scans) ==
    /\ \E aps \in scans : wifi_history_find_best_network(aps)
    /\ UNCHANGED <<orchVars, drvVars, taskVars>>

\* SpecSelect: the two selection routines at their signal floors
FloorScans ==
    ScansUpTo(ApRecords(TwoSsids, {-85, -84, -80, -79, -50}, {StationA}), MaxScan)

NextSelect ==
    \/ InitStep
    \/ AddStep(TwoSsids, {PlainArgs})
    \/ SuccessStep(TwoSsids, MaxConnectCount)
    \/ AutoConnectStep(FloorScans, {"none", "records"})
    \/ FindBestStep(FloorScans)

SpecSelect == Init /\ [][NextSelect]_vars

\* SpecPin: the auto-connect sequence over records with and without a stored
\* station identifier and access points of two stations
PinScans == ScansUpTo(ApRecords(TwoSsids, {-50}, {StationA, StationB}), MaxScan)

NextPin ==
    \/ InitStep
    \/ AddStep(TwoSsids, {PlainArgs, FullArgs})
    \/ AutoConnectStep(PinScans, {"none"} \cup ConnectFailPoints)

SpecPin == Init /\ [][NextPin]_vars

\* SpecOrch: the event handler, with one known network
DisconnectedStep == \E reason \in Reasons : OnStaDisconnected(reason)

\* the driver reports a connection only for a configuration the model can
\* still count successes for
ConnectedStep == BelowCap(Ptr(sta_config.ssid), MaxConnectCount) /\ OnStaConnected

OneSsid == {Ptr(SsidPool[1])}
OrchScans == ScansUpTo(ApRecords(OneSsid, {-50}, {StationA}), 1)

NextOrch ==
    \/ InitStep
    \/ AddStep(OneSsid, {FullArgs})
    \/ AutoConnectStep(OrchScans, AutoFailPoints)
    \/ OnStaStart
    \/ ConnectedStep
    \/ DisconnectedStep
    \/ OnGotIp
    \/ wifi_reset_connection_retry
    \/ Reboot

SpecOrch == Init /\ [][NextOrch]_vars

\* SpecArgs: upserts with names and secrets around the two length bounds
StringOfLen(n) == [i \in 1 .. n |-> "x"]

BoundarySsids ==
    {NULL, Ptr(<<>>), Ptr(SsidPool[1])} \cup
    {Ptr(StringOfLen(WIFI_HISTORY_SSID_MAX_LEN + k)) : k \in {-1, 0, 1}}

BoundaryProfiles ==
    {[PlainArgs EXCEPT !.password = pw] :
        pw \in {NULL} \cup
               {Ptr(StringOfLen(WIFI_HISTORY_PASSWORD_MAX_LEN + k)) : k \in {-1, 0, 1}}}

NextArgs ==
    \/ InitStep
    \/ AddStep(BoundarySsids, BoundaryProfiles)
    \/ RemoveStep(BoundarySsids)
    \/ Reboot

SpecArgs == Init /\ [][NextArgs]_vars

\* SpecUpsert: records added, updated, evicted and removed with different
\* argument profiles
UpsertProfiles == {PlainArgs, FullArgs}

NextUpsert ==
    \/ InitStep
    \/ AddStep(SsidArgs, UpsertProfiles)
    \/ SuccessStep(OneSsid, MaxConnectCount)
    \/ RemoveStep(SsidArgs)
    \/ Tick

SpecUpsert == Init /\ [][NextUpsert]_vars

\* SpecBoot: restarts of a device whose namespace "wifi_config" may hold a
\* station configuration, with the events that set the flag in "wifi_state"
SavedStaConfig == [ZeroStaConfig EXCEPT !.ssid = SsidPool[1]]

WifiConfigImages ==
    {EmptyWifiConfig} \cup
    {[sta_config |-> <<SavedStaConfig>>, connection_failed |-> f] :
        f \in {<<>>, <<0>>, <<1>>}}

InitBoot == FreshDevice /\ budget = 0 /\ wifi_config \in WifiConfigImages

NextBoot ==
    \/ wifi_init_softap
    \/ DisconnectedStep
    \/ OnGotIp
    \/ wifi_reset_connection_retry
    \/ Reboot

SpecBoot == InitBoot /\ [][NextBoot]_vars

\* SpecLoop: the auto-connect task with one known network, while the station
\* gains and loses its association
CycleStep ==
    \E has_ip \in BOOLEAN, probe \in ProbeResults, aps \in OrchScans,
       fail \in AutoFailPoints :
        wifi_auto_connect_cycle(has_ip, probe, aps, fail)

LinkLostStep == OnStaDisconnected("WIFI_REASON_AUTH_FAIL")

NextLoop ==
    \/ wifi_init_softap
    \/ AddStep(OneSsid, {FullArgs})
    \/ CycleStep
    \/ ConnectedStep
    \/ LinkLostStep

SpecLoop == Init /\ [][NextLoop]_vars

\* the boot code runs, and the scheduler keeps running the task
SpecLoopFair == SpecLoop /\ WF_vars(wifi_init_softap) /\ WF_vars(CycleStep)

\* ---- SpecRace: the event task and the loop task on the shared table ----------
\* wifi_history_update_success runs in the event-loop task (called from the
\* handler of WIFI_EVENT_STA_CONNECTED), the selection walk of
\* wifi_history_auto_connect in wifi_auto_connect_task.  Both work on
\* s_wifi_history directly; neither file takes a lock, so the scheduler can
\* switch tasks between any two stores or loads.  The steps below are the
\* stores of the update (one per field, one per assignment of the swap) and
\* the walk's visits (one per slot; the read of a slot is taken as a whole).

\* best_rssi / found_network / best_network / best_ap_record before the walk
NoCandidate ==
    [found |-> FALSE, rssi |-> InitialBestRssi, net |-> ZeroEntry,
     ap |-> [ssid |-> <<>>, rssi |-> 0, bssid |-> ZeroBssid, primary |-> 0]]

\* the body of the walk's outer loop for the slot content e
walk_visit(e, aps, best) ==
    IF ~e.is_valid THEN best
    ELSE LET j == auto_match(aps, e.ssid, 1)
         IN  IF j = 0 THEN best
             ELSE IF \/ aps[j].rssi > best.rssi
                     \/ /\ aps[j].rssi = best.rssi
                        /\ e.priority > best.net.priority
                  THEN [found |-> TRUE, rssi |-> aps[j].rssi, net |-> e,
                        ap |-> aps[j]]
                  ELSE best

\* the tables between complete store operations at this moment: the table
\* itself while no update runs, else the table the running update started
\* from and the one it ends with
CompleteTables ==
    IF updater.pc = "idle" THEN {networks}
    ELSE {updater.before,
          update_success_mem(updater.before, updater.index, get_timestamp)}

\* the lookup of wifi_history_update_success; before is the table at entry
UpdateBegin(ssidp) ==
    /\ updater.pc = "idle"
    /\ s_initialized
    /\ BelowCap(ssidp, MaxConnectCount)
    /\ LET index == find_network_index(networks, ssidp)
       IN  /\ index >= 0
           /\ updater' = [pc |-> "stamp", ssid |-> ssidp, index |-> index,
                          i |-> 0, j |-> 0, temp |-> ZeroEntry,
                          before |-> networks]
           /\ walker' = IF walker.pc = "idle" THEN walker
                        ELSE [walker EXCEPT !.complete = @ \cup
                                 {update_success_mem(networks, index,
                                                     get_timestamp)}]
    /\ UNCHANGED <<storeVars, orchVars, drvVars, failed_attempts, wifi_config, usb, ws>>

\* entry->last_connected = get_timestamp()
UpdateStamp ==
    /\ updater.pc = "stamp"
    /\ networks' = [networks EXCEPT ![updater.index].last_connected = get_timestamp]
    /\ updater' = [updater EXCEPT !.pc = "count"]
    /\ UNCHANGED <<count, next_timestamp, s_initialized, nvs, now, budget, last,
                   saved, walker>>
    /\ UNCHANGED <<orchVars, drvVars, failed_attempts, wifi_config, usb, ws>>

\* entry->connect_count++
UpdateCount ==
    /\ updater.pc = "count"
    /\ networks' = [networks EXCEPT ![updater.index].connect_count = @ + 1]
    /\ updater' = [updater EXCEPT !.pc = "priority"]
    /\ UNCHANGED <<count, next_timestamp, s_initialized, nvs, now, budget, last,
                   saved, walker>>
    /\ UNCHANGED <<orchVars, drvVars, failed_attempts, wifi_config, usb, ws>>

\* if (entry->connect_count > 1) entry->priority = ...
UpdatePriority ==
    /\ updater.pc = "priority"
    /\ LET cc == networks[updater.index].connect_count
       IN  networks' = IF cc > 1
                       THEN [networks EXCEPT ![updater.index].priority =
                                                 success_priority(cc)]
                       ELSE networks
    /\ updater' = [updater EXCEPT !.pc = "sort"]
    /\ UNCHANGED <<count, next_timestamp, s_initialized, nvs, now, budget, last,
                   saved, walker>>
    /\ UNCHANGED <<orchVars, drvVars, failed_attempts, wifi_config, usb, ws>>

\* sort_networks_by_priority at (i, j): the loop heads, the comparison and,
\* where the pair is out of order, temp = networks[j]
SortStep ==
    /\ updater.pc = "sort"
    /\ LET i == updater.i
           j == updater.j
       IN  updater' =
             IF i >= WIFI_HISTORY_MAX_NETWORKS - 1
             THEN [updater EXCEPT !.pc = "save"]
             ELSE IF j >= WIFI_HISTORY_MAX_NETWORKS - 1 - i
             THEN [updater EXCEPT !.i = i + 1, !.j = 0]
             ELSE IF /\ networks[j].is_valid
                     /\ networks[j + 1].is_valid
                     /\ ranks_below(networks[j], networks[j + 1])
             THEN [updater EXCEPT !.pc = "swap_low", !.temp = networks[j]]
             ELSE [updater EXCEPT !.j = j + 1]
    /\ UNCHANGED <<storeVars, orchVars, drvVars, failed_attempts, wifi_config, usb, ws,
                   walker>>

\* networks[j] = networks[j + 1]
SwapLow ==
    /\ updater.pc = "swap_low"
    /\ networks' = [networks EXCEPT ![updater.j] = networks[updater.j + 1]]
    /\ updater' = [updater EXCEPT !.pc = "swap_high"]
    /\ UNCHANGED <<count, next_timestamp, s_initialized, nvs, now, budget, last,
                   saved, walker>>
    /\ UNCHANGED <<orchVars, drvVars, failed_attempts, wifi_config, usb, ws>>

\* networks[j + 1] = temp
SwapHigh ==
    /\ updater.pc = "swap_high"
    /\ networks' = [networks EXCEPT ![updater.j + 1] = updater.temp]
    /\ updater' = [updater EXCEPT !.pc = "sort", !.j = @ + 1]
    /\ UNCHANGED <<count, next_timestamp, s_initialized, nvs, now, budget, last,
                   saved, walker>>
    /\ UNCHANGED <<orchVars, drvVars, failed_attempts, wifi_config, usb, ws>>

\* return wifi_history_save()
UpdateSave ==
    /\ updater.pc = "save"
    /\ SaveAndReturn("success", updater.ssid, networks, count, next_timestamp,
                     updater.index, FALSE, <<>>)
    /\ updater' = IdleUpdater
    /\ UNCHANGED <<orchVars, drvVars, failed_attempts, wifi_config, usb, ws, walker>>

\* the walk starts on the scan aps; seen collects what each visit read,
\* complete the tables between complete operations during the walk
WalkBegin(aps) ==
    /\ walker.pc = "idle"
    /\ s_initialized
    /\ walker' = [pc |-> "walk", i |-> 0, aps |-> aps, best |-> NoCandidate,
                  seen |-> <<>>, complete |-> CompleteTables]
    /\ UNCHANGED <<storeVars, orchVars, drvVars, failed_attempts, wifi_config, usb, ws,
                   updater>>

\* one pass of the outer loop: slot i
WalkStep ==
    /\ walker.pc = "walk"
    /\ LET e == networks[walker.i]
       IN  walker' = [walker EXCEPT
                         !.best = walk_visit(e, walker.aps, walker.best),
                         !.seen = Append(@, e),
                         !.i = @ + 1,
                         !.pc = IF walker.i + 1 >= WIFI_HISTORY_MAX_NETWORKS
                                THEN "done" ELSE "walk"]
    /\ UNCHANGED <<storeVars, orchVars, drvVars, failed_attempts, wifi_config, usb, ws,
                   updater>>

\* after the walk: ESP_ERR_NOT_FOUND, or the configuration is applied and the
\* connect issued
WalkEnd ==
    /\ walker.pc = "done"
    /\ walker' = IdleWalker
    /\ LET best == walker.best
           cfg == auto_connect_config(best.net, best.ap)
       IN  IF ~best.found
           THEN /\ last' = Report("walk", walker.aps, ESP_ERR_NOT_FOUND, -1, FALSE,
                                  <<>>)
                /\ calls' = <<>>
                /\ UNCHANGED sta_config
           ELSE /\ last' = Report("walk", walker.aps, ESP_OK, -1, FALSE,
                                  <<[net |-> best.net, ap |-> best.ap]>>)
                /\ calls' = <<Call("set_config", cfg), Call("connect", cfg)>>
                /\ sta_config' = cfg
    /\ UNCHANGED <<networks, count, next_timestamp, s_initialized, nvs, now,
                   budget, saved, assoc>>
    /\ UNCHANGED <<orchVars, failed_attempts, wifi_config, usb, ws, updater>>

\* both known networks in range; the first at the same or a weaker signal
RaceScans ==
    {<<x, y>> : x \in ApRecords({Ptr(SsidPool[1])}, {-60, -50}, {StationA}),
                y \in ApRecords({Ptr(SsidPool[2])}, {-50}, {StationA})}

\* records are added while neither task is inside the table
QuietAddStep ==
    /\ updater.pc = "idle"
    /\ walker.pc = "idle"
    /\ AddStep(TwoSsids, {FullArgs})

UpdateBeginStep == \E ssidp \in TwoSsids : UpdateBegin(ssidp)

WalkBeginStep == \E aps \in RaceScans : WalkBegin(aps)

NextRace ==
    \/ InitStep
    \/ QuietAddStep
    \/ UpdateBeginStep
    \/ UpdateStamp
    \/ UpdateCount
    \/ UpdatePriority
    \/ SortStep
    \/ SwapLow
    \/ SwapHigh
    \/ UpdateSave
    \/ WalkBeginStep
    \/ WalkStep
    \/ WalkEnd

SpecRace == Init /\ [][NextRace]_vars

\* ---- properties ----------------------------------------------------------------
ValidSlots(nets) == {i \in Slots : nets[i].is_valid}
NumValid(nets) == Cardinality(ValidSlots(nets))
Mutators == {"add", "success", "remove", "clear"}

\* C1: on an initialized store no two valid slots hold the same name and
\* every valid slot has a non-empty name.
C1_UniqueNames ==
    s_initialized =>
        /\ \A i, j \in Slots :
              networks[i].is_valid /\ networks[j].is_valid /\ i # j
                  => networks[i].ssid # networks[j].ssid
        /\ \A i \in Slots : networks[i].is_valid => networks[i].ssid # <<>>

\* an upsert has just replaced a record of a full table
C1_Witness ==
    /\ s_initialized
    /\ last.op = "add" /\ last.ret = ESP_OK /\ last.evict
    /\ NumValid(networks) = WIFI_HISTORY_MAX_NETWORKS

\* C2: list() returns the valid records in descending priority order, ties
\* broken by descending last_connected, for every table layout.
C2_ListDescending ==
    (last.op = "list" /\ last.ret = ESP_OK) =>
        \A k \in 1 .. (Len(last.out) - 1) :
            \/ last.out[k].priority > last.out[k + 1].priority
            \/ /\ last.out[k].priority = last.out[k + 1].priority
               /\ last.out[k].last_connected >= last.out[k + 1].last_connected

\* C4: an upsert of a new name into a table with no free slot overwrites the
\* valid record of lowest priority (oldest last_connected among equals), keeps
\* every other record, makes the new name findable and the evicted one not,
\* and leaves count at the capacity.
C4_EvictsLowestRanked ==
    [][(last'.op = "add" /\ last'.evict) =>
        LET k == last'.slot
        IN  /\ \A i \in Slots :
                  \/ networks[k].priority < networks[i].priority
                  \/ /\ networks[k].priority = networks[i].priority
                     /\ networks[k].last_connected <= networks[i].last_connected
            /\ \A i \in Slots \ {k} : networks'[i] = networks[i]
            /\ find_network_index(networks', last'.arg) = k
            /\ find_network_index(networks', Ptr(networks[k].ssid)) = -1
            /\ count' = WIFI_HISTORY_MAX_NETWORKS
      ]_vars

\* C9: after a save that returned ESP_OK, a reboot and an init whose reads
\* succeed, the valid records are those saved and count is their number.
C9_RoundTrip ==
    [][(last'.op = "init" /\ budget' = budget /\ saved # <<>>) =>
        /\ \A i \in Slots :
              saved[1].networks[i].is_valid => networks'[i] = saved[1].networks[i]
        /\ ValidSlots(networks') = ValidSlots(saved[1].networks)
        /\ count' = NumValid(saved[1].networks)
      ]_vars

\* C10: init() returns success, and afterwards the table is the persisted
\* table or, when a part of the persisted data is missing or unreadable,
\* the empty table; count is the number of valid slots.
C10_InitConsistent ==
    /\ last.op \in {"init", "init_again"} => last.ret = ESP_OK
    /\ last.op = "init" =>
          /\ count = NumValid(networks)
          /\ \/ /\ nvs.networks = <<networks>>
                /\ nvs.count = <<count>>
                /\ nvs.timestamp = <<next_timestamp>>
             \/ networks = ZeroTable /\ count = 0

\* the priority of the valid record named by ssidp
PriorityOf(nets, ssidp) == nets[find_network_index(nets, ssidp)].priority

\* C3: a record's priority after a recordSuccess is at least its priority
\* before: it saturates at 255 and never wraps to a smaller value.
C3_PriorityMonotonic ==
    [][(last'.op = "success" /\ last'.ret = ESP_OK) =>
          PriorityOf(networks', last'.arg) >= PriorityOf(networks, last'.arg)
      ]_vars

\* the pairs of a valid record and a scan entry of its name above floor
Candidates(nets, aps, floor) ==
    {p \in ValidSlots(nets) \X DOMAIN aps :
        nets[p[1]].ssid = aps[p[2]].ssid /\ aps[p[2]].rssi > floor}

\* the outcome of a selection over the scan aps with the given floor: a
\* record is selected exactly when some pair is above the floor, and the
\* scan entry matched to it is an entry of the scan, of the record's name,
\* above the floor
SelectionAtFloor(aps, floor) ==
    /\ last.out # <<>> <=> Candidates(networks, aps, floor) # {}
    /\ last.out # <<>> =>
          /\ last.out[1].ap.rssi > floor
          /\ last.out[1].ap.ssid = last.out[1].net.ssid
          /\ \E j \in DOMAIN aps : aps[j] = last.out[1].ap
          /\ \E i \in ValidSlots(networks) : networks[i].ssid = last.out[1].net.ssid

\* the selection of wifi_history_auto_connect ran
AutoSelected ==
    /\ last.op = "auto"
    /\ last.ret # ESP_ERR_INVALID_STATE
    /\ last.arg.fail \notin {"scan", "scan_twice", "malloc", "records"}

FindBestSelected == last.op = "find_best" /\ last.ret \in {ESP_OK, ESP_ERR_NOT_FOUND}

\* C5 as stated: both selection routines reject a name-matching scan entry
\* at -85 dBm and accept one at -84 dBm.
C5_OneFloor ==
    /\ AutoSelected => SelectionAtFloor(last.arg.aps, -85)
    /\ FindBestSelected => SelectionAtFloor(last.arg, -85)

\* C5: the selection inside wifi_history_auto_connect rejects a name-matching
\* scan entry at -85 dBm and accepts one at -84 dBm;
\* wifi_history_find_best_network rejects one at -80 dBm (so also at -84) and
\* accepts one at -79 dBm.  Neither selects a record whose matched entry is at
\* or below its floor.
C5_FloorPerRoutine ==
    /\ AutoSelected => SelectionAtFloor(last.arg.aps, -85)
    /\ FindBestSelected => SelectionAtFloor(last.arg, -80)

\* auto-connect passed over an entry at -85 dBm and took one at -84 dBm
C5_Witness ==
    /\ AutoSelected
    /\ last.out # <<>>
    /\ last.out[1].ap.rssi = -84
    /\ \E j \in DOMAIN last.arg.aps :
          /\ last.arg.aps[j].rssi = -85
          /\ last.arg.aps[j].ssid = last.out[1].net.ssid

\* wifi_history_find_best_network turned down an entry at -84 dBm
C5_FindBestRejects84 ==
    /\ FindBestSelected
    /\ last.ret = ESP_ERR_NOT_FOUND
    /\ Candidates(networks, last.arg, -85) # {}

\* C6: the station configuration the auto-connect sequence first sets is
\* pinned exactly when the selected record's stored identifier is non-zero and
\* equals the matched scan entry's identifier; every configuration it sets or
\* connects with carries the record's name and is pinned only in that case;
\* and unless esp_wifi_set_config itself fails a connect request is issued.
C6_PinOnExactMatch ==
    (last.op = "auto" /\ last.out # <<>>) =>
        LET net == last.out[1].net
            ap == last.out[1].ap
            exact == net.bssid # ZeroBssid /\ net.bssid = ap.bssid
            sets == {n \in DOMAIN calls : calls[n].fn = "set_config"}
            connects == {n \in DOMAIN calls : calls[n].fn = "connect"}
        IN  /\ sets # {}
            /\ \A n \in sets : (\A m \in sets : n <= m) =>
                                  (calls[n].cfg.bssid_set <=> exact)
            /\ \A n \in sets \cup connects :
                  /\ calls[n].cfg.ssid = net.ssid
                  /\ calls[n].cfg.bssid_set =>
                        exact /\ calls[n].cfg.bssid = ap.bssid
            /\ last.arg.fail # "set_config" => connects # {}
            /\ last.ret = ESP_OK =>
                  /\ calls[Len(calls)].fn = "connect"
                  /\ sta_config = calls[Len(calls)].cfg

\* a record with a stale identifier was selected and the connect went out
\* unpinned
C6_Witness ==
    /\ last.op = "auto" /\ last.out # <<>> /\ last.ret = ESP_OK
    /\ last.out[1].net.bssid # ZeroBssid
    /\ last.out[1].net.bssid # last.out[1].ap.bssid
    /\ \E n \in DOMAIN calls : calls[n].fn = "connect" /\ ~calls[n].cfg.bssid_set

\* C7: from retry counter 0, after k Disconnected events in a row with a
\* generic reason, the handler has issued min(k, 5) connect calls.
C7_RetryBudget ==
    streak.k >= 0 => streak.connects = Min(streak.k, 5)

\* a sixth generic Disconnected in a row went unanswered
C7_Witness ==
    /\ streak.k >= 6
    /\ streak.connects = 5
    /\ last.op = "sta_disconnected"
    /\ calls = <<>>

\* C8: a Disconnected event with reason authentication failure or 4-way
\* handshake timeout issues no driver call and sets the retry counter to 5,
\* whatever it was; and at 5 the handler is idle: no Disconnected event makes
\* it reconnect.
C8_AuthFailureStops ==
    [][/\ (/\ last'.op = "sta_disconnected"
           /\ last'.arg \in {"WIFI_REASON_AUTH_FAIL",
                             "WIFI_REASON_4WAY_HANDSHAKE_TIMEOUT"}) =>
              /\ calls' = <<>>
              /\ s_retry_num' = 5
              /\ sta_config' = sta_config
       /\ (last'.op = "sta_disconnected" /\ s_retry_num = 5) => calls' = <<>>
      ]_vars

\* a handshake timeout arrived in the middle of a retry sequence
C8_Witness ==
    /\ last.op = "sta_disconnected"
    /\ last.arg = "WIFI_REASON_4WAY_HANDSHAKE_TIMEOUT"
    /\ s_retry_num = 5
    /\ streak.k = NoStreak.k
    /\ sta_config.ssid # <<>>

\* C12: with the retry counter at 5, no Disconnected event of any reason makes
\* the handler call the driver or change the station configuration, and the
\* counter stays at 5; it leaves 5 only to 0, on Connected, IpAcquired, the
\* explicit reset or a restart.
C12_ExhaustedStaysIdle ==
    [][/\ (last'.op = "sta_disconnected" /\ s_retry_num = 5) =>
              /\ calls' = <<>>
              /\ s_retry_num' = 5
              /\ sta_config' = sta_config
       /\ (s_retry_num = 5 /\ s_retry_num' # 5) =>
              /\ s_retry_num' = 0
              /\ last'.op \in {"sta_connected", "success", "got_ip", "reset_retry",
                               "boot"}
      ]_vars

\* an AP-not-found event met a pinned configuration with the retries exhausted
C12_Witness ==
    /\ last.op = "sta_disconnected"
    /\ last.out[1].retry = 5
    /\ last.arg = "WIFI_REASON_NO_AP_FOUND"
    /\ sta_config.bssid_set
    /\ calls = <<>>

\* the step was a mutating operation that got past its checks to the save
Persisting == last'.op \in Mutators /\ last'.ret \in {ESP_OK, ESP_ERR_NVS}

\* the table in memory after the step carries the operation's change
MutationInMemory ==
    LET index == find_network_index(networks, last'.arg)
        index2 == find_network_index(networks', last'.arg)
    IN  CASE last'.op = "clear" -> networks' = ZeroTable /\ count' = 0
          [] last'.op = "remove" ->
                /\ index2 < 0
                /\ networks'[last'.slot] = ZeroEntry
                /\ count' = U8(count - 1)
          [] last'.op = "add" ->
                /\ index2 = last'.slot
                /\ networks'[index2].is_valid
                /\ index < 0 => networks'[index2].connect_count = 1
          [] last'.op = "success" ->
                /\ index2 >= 0
                /\ networks'[index2].connect_count = networks[index].connect_count + 1

\* C13: a mutating operation that passes its checks changes the table in
\* memory and then saves it: when every nvs_* call succeeds the flash holds
\* the table in memory; when one fails the operation returns that error and
\* the table in memory still carries the change.
C13_SaveErrorKeepsMutation ==
    [][Persisting =>
          /\ MutationInMemory
          /\ budget' = budget =>
                /\ last'.ret = ESP_OK
                /\ nvs' = [networks |-> <<networks'>>, count |-> <<count'>>,
                           timestamp |-> <<next_timestamp'>>]
          /\ budget' < budget => last'.ret = ESP_ERR_NVS
      ]_vars

\* an upsert into an empty slot whose save failed: the record is in memory
\* and not in the flash
C13_Witness ==
    /\ last.op = "add" /\ last.ret = ESP_ERR_NVS
    /\ networks[last.slot].is_valid
    /\ nvs.networks # <<networks>>
    /\ NumValid(networks) = 2

\* C14: on an initialized store the upsert returns ESP_ERR_INVALID_ARG exactly
\* when the name is absent or empty, the name is longer than 32 bytes, or a
\* secret is given and is longer than 64 bytes; and then the table and the
\* flash are unchanged.
C14_InvalidArgument ==
    [][(last'.op = "add" /\ last'.ret # ESP_ERR_INVALID_STATE) =>
          LET ssidp == last'.arg
              passwordp == last'.out[1].password
          IN  /\ last'.ret = ESP_ERR_INVALID_ARG <=>
                    \/ ssidp = NULL
                    \/ Len(Deref(ssidp)) = 0
                    \/ Len(Deref(ssidp)) > 32
                    \/ passwordp # NULL /\ Len(Deref(passwordp)) > 64
              /\ last'.ret = ESP_ERR_INVALID_ARG =>
                    UNCHANGED <<networks, count, next_timestamp, nvs>>
      ]_vars

\* the selected pair is a strongest pair above floor, and among the pairs of
\* that signal its record has the highest priority
StrongestPair(aps, floor) ==
    \A p \in Candidates(networks, aps, floor) :
        /\ last.out[1].ap.rssi >= aps[p[2]].rssi
        /\ aps[p[2]].rssi = last.out[1].ap.rssi =>
              last.out[1].net.priority >= networks[p[1]].priority

\* a scan in the order the driver reports it: strongest signal first
StrongestFirst(aps) ==
    \A j \in 1 .. (Len(aps) - 1) : aps[j].rssi >= aps[j + 1].rssi

\* C15: in both selection routines, on a scan reported strongest first, the
\* selected (record, scan entry) pair has a signal at least that of every pair
\* of a valid record and a scan entry of its name above the floor, and among
\* pairs of the strongest signal the record of highest priority is selected.
C15_TracksBest ==
    /\ (AutoSelected /\ last.out # <<>> /\ StrongestFirst(last.arg.aps)) =>
          StrongestPair(last.arg.aps, -85)
    /\ (FindBestSelected /\ last.out # <<>> /\ StrongestFirst(last.arg)) =>
          StrongestPair(last.arg, -80)

\* the driver calls of the last sequence that set a configuration or connect
ConnectCalls == {n \in DOMAIN calls : calls[n].fn \in {"set_config", "connect"}}

\* C16: when no valid record has a scan entry of its name above the floor
\* (an empty scan and an empty table included), the selection returns
\* ESP_ERR_NOT_FOUND and the auto-connect sequence calls neither
\* esp_wifi_set_config nor esp_wifi_connect.
C16_NotFoundNoCalls ==
    /\ (AutoSelected /\ Candidates(networks, last.arg.aps, -85) = {}) =>
          /\ last.ret = ESP_ERR_NOT_FOUND
          /\ ConnectCalls = {}
    /\ (/\ last.op = "find_best"
        /\ last.ret # ESP_ERR_INVALID_STATE
        /\ Candidates(networks, last.arg, -80) = {}) =>
          last.ret = ESP_ERR_NOT_FOUND

\* C17: at boot the byte connection_failed of namespace "wifi_state" decides
\* whether a saved station configuration is applied: not when the byte is 1,
\* and when it is 0 the saved configuration is applied if there is one.
C17_BootConsultsWifiState ==
    (last.op = "init" /\ wifi_config.sta_config # <<>>) =>
        /\ wifi_state = <<1>> => calls = <<>>
        /\ wifi_state = <<0>> =>
              calls = <<Call("set_config", wifi_config.sta_config[1])>>

\* the last pass of the loop took this branch
CycleTook(branches) == last.op = "cycle" /\ last.arg.branch \in branches

\* C18: every failed auto-connect sequence of the loop, whatever driver call
\* failed, raises failed_attempts by exactly one and the loop goes on; and
\* with the task scheduled fairly, if from some point on no pass finds the
\* device connected or a connect in progress, the loop runs the auto-connect
\* sequence infinitely often.
C18_LoopKeepsTrying ==
    /\ [](CycleTook({"attempt"}) /\ last.ret # ESP_OK =>
              failed_attempts = last.arg.before + 1)
    /\ (<>[](last.op = "cycle" => ~CycleTook({"connected", "connecting"}))
           => []<>CycleTook({"attempt"}))

\* the third attempt in a row failed, on the fallback connect
C18_Witness ==
    /\ CycleTook({"attempt"})
    /\ last.arg.fail = "connect_twice" /\ last.ret = ESP_ERR_WIFI
    /\ last.arg.before = 2
    /\ failed_attempts = 3

\* C19: a pass in which the probing esp_wifi_connect answers
\* ESP_ERR_WIFI_CONN makes no other driver call and leaves failed_attempts
\* as it was.
C19_InProgressNoAttempt ==
    (last.op = "cycle" /\ last.arg.probe = "ESP_ERR_WIFI_CONN") =>
        /\ calls = <<Call("connect", sta_config)>>
        /\ failed_attempts = last.arg.before
        /\ last.arg.branch = "connecting"

\* a connect was in progress while two failures were already counted
C19_Witness ==
    /\ CycleTook({"connecting"})
    /\ last.arg.probe = "ESP_ERR_WIFI_CONN"
    /\ failed_attempts = 2
    /\ Len(calls) = 1

\* C20: failed_attempts stays in 0..3; a pass that finds the device connected,
\* a successful auto-connect and the cooldown set it to 0; an auto-connect
\* sequence runs only below 3, and at 3 the pass is the cooldown, which makes
\* no driver call after the probe.
C20_FailedAttemptsBounded ==
    /\ failed_attempts \in 0 .. 3
    /\ CycleTook({"connected", "cooldown"}) => failed_attempts = 0
    /\ CycleTook({"attempt"}) =>
          /\ last.arg.before < 3
          /\ last.ret = ESP_OK => failed_attempts = 0
          /\ last.ret # ESP_OK => failed_attempts = last.arg.before + 1
    /\ CycleTook({"cooldown"}) =>
          /\ last.arg.before = 3
          /\ calls = <<Call("connect", sta_config)>>
    /\ (last.op = "cycle" /\ last.arg.before = 3) =>
          CycleTook({"connected", "connecting", "cooldown"})

\* the cooldown pass after three failed attempts
C20_Witness ==
    /\ CycleTook({"cooldown"})
    /\ last.arg.before = 3
    /\ failed_attempts = 0

\* ---- C11 ----------------------------------------------------------------------
\* what the walk read, slot by slot
WalkView == [i \in Slots |-> walker.seen[i + 1]]

\* C11: the selection walk of wifi_history_auto_connect never sees the table
\* in the middle of wifi_history_update_success or of a swap of its re-sort:
\* what a finished walk read, slot by slot, is one of the tables that stood
\* between two complete store operations while the walk ran.
C11_WalkSeesCompleteTable ==
    walker.pc = "done" => WalkView \in walker.complete

\* ---- C21 ----------------------------------------------------------------------
\* C21: once the store is initialized, count is the number of valid slots and
\* lies in 0 .. WIFI_HISTORY_MAX_NETWORKS, whatever sequence of add (with or
\* without eviction), update_success, remove and clear_all ran; remove never
\* takes it below 0.
C21_CountIsValidSlots ==
    s_initialized =>
        /\ count = NumValid(networks)
        /\ count \in 0 .. WIFI_HISTORY_MAX_NETWORKS

RecordOf(nets, ssidp) == nets[find_network_index(nets, ssidp)]

\* C23: a wifi_history_update_success that returns ESP_OK raises the named
\* record's connect_count by exactly 1 and leaves its priority at
\* 100 + (connect_count - 1) * 10, capped at 255, for the raised count; the
\* connect_count and priority of every other record stay as they were.
C23_SuccessCountsAndRanks ==
    [][(last'.op = "success" /\ last'.ret = ESP_OK) =>
          \A ssidp \in SsidArgs :
              find_network_index(networks, ssidp) >= 0 =>
                  LET old == RecordOf(networks, ssidp)
                      new == RecordOf(networks', ssidp)
                  IN  IF ssidp = last'.arg
                      THEN /\ new.connect_count = old.connect_count + 1
                           /\ new.priority =
                                Min(255, DefaultPriority
                                         + (new.connect_count - 1) * PriorityStep)
                      ELSE /\ new.connect_count = old.connect_count
                           /\ new.priority = old.priority
      ]_vars

\* ---- C24 ----------------------------------------------------------------------
\* the connect calls among cs
Connects(cs) == {k \in DOMAIN cs : cs[k].fn = "connect"}

ConnectedReports == {"success", "sta_connected"}

C27_StaStartIsIdle ==
    [][last'.op = "sta_start" =>
          /\ Connects(calls') = {}
          /\ s_retry_num' = s_retry_num
          /\ sta_config' = sta_config
          /\ networks' = networks
          /\ count' = count
          /\ next_timestamp' = next_timestamp
          /\ nvs' = nvs
          /\ wifi_state' = wifi_state
      ]_vars

\* the station starts while a network is known and configured and two
\* reconnects were counted
C27_Witness ==
    /\ last.op = "sta_start"
    /\ s_retry_num = 2
    /\ NumValid(networks) = 1
    /\ sta_config.ssid # <<>>
    /\ calls = <<>>

\* ---- C28 ----------------------------------------------------------------------
\* C28: a wifi_history_add_network that succeeds for a name no valid record
\* has leaves a valid record of that name with priority 100, connect_count 1,
\* the given channel, authmode and rssi, the given bssid or all zeros when
\* none was given, the given password or the empty string when none was
\* given; nothing of the slot's previous occupant remains, and the other
\* slots are as before.
C28_InsertedRecord ==
    [][(/\ last'.op = "add" /\ last'.ret = ESP_OK
        /\ find_network_index(networks, last'.arg) < 0) =>
          LET a == last'.out[1]
              i == find_network_index(networks', last'.arg)
          IN  /\ i >= 0
              /\ networks'[i] =
                    [ssid |-> Deref(last'.arg),
                     password |-> IF a.password = NULL THEN <<>>
                                  ELSE Deref(a.password),
                     bssid |-> IF a.bssid = NULL THEN ZeroBssid
                               ELSE Deref(a.bssid),
                     channel |-> a.channel, authmode |-> a.authmode,
                     rssi |-> a.rssi, last_connected |-> now,
                     connect_count |-> 1, priority |-> 100, is_valid |-> TRUE]
              /\ \A k \in Slots \ {i} : networks'[k] = networks[k]
      ]_vars

\* a record added without password and bssid took the slot of an evicted
\* record, in a table whose other records carry both
C28_Witness ==
    /\ last.op = "add" /\ last.ret = ESP_OK /\ last.evict
    /\ last.out[1].password = NULL /\ last.out[1].bssid = NULL
    /\ networks[last.slot].ssid = Deref(last.arg)
    /\ networks[last.slot].password = <<>>
    /\ networks[last.slot].bssid = ZeroBssid
    /\ networks[last.slot].connect_count = 1
    /\ NumValid(networks) = WIFI_HISTORY_MAX_NETWORKS
    /\ \A k \in Slots \ {last.slot} :
          networks[k].password # <<>> /\ networks[k].bssid # ZeroBssid

\* ---- C29 ----------------------------------------------------------------------
\* C29: a wifi_history_add_network that succeeds for the name of a valid
\* record changes, in that record only, channel, authmode, rssi and
\* last_connected, and password and bssid only when they are given; the
\* record's priority and connect_count, count and every other slot stay as
\* they were.
C29_UpdateInPlace ==
    [][(/\ last'.op = "add" /\ last'.ret = ESP_OK
        /\ find_network_index(networks, last'.arg) >= 0) =>
          LET a == last'.out[1]
              i == find_network_index(networks, last'.arg)
              old == networks[i]
          IN  /\ networks'[i] =
                    [old EXCEPT
                        !.channel = a.channel, !.authmode = a.authmode,
                        !.rssi = a.rssi, !.last_connected = now,
                        !.password = IF a.password = NULL THEN old.password
                                     ELSE Deref(a.password),
                        !.bssid = IF a.bssid = NULL THEN old.bssid
                                  ELSE Deref(a.bssid)]
              /\ networks'[i].priority = old.priority
              /\ networks'[i].connect_count = old.connect_count
              /\ \A k \in Slots \ {i} : networks'[k] = networks[k]
              /\ count' = count
      ]_vars

\* a record that connected twice and holds a password and a bssid is added
\* again, later, without password and bssid
C29_Witness ==
    /\ last.op = "add" /\ last.ret = ESP_OK /\ ~last.evict
    /\ last.out[1].password = NULL /\ last.out[1].bssid = NULL
    /\ networks[last.slot].ssid = Deref(last.arg)
    /\ networks[last.slot].connect_count = 2
    /\ networks[last.slot].priority = 110
    /\ networks[last.slot].password # <<>>
    /\ networks[last.slot].bssid # ZeroBssid
    /\ networks[last.slot].channel = last.out[1].channel
    /\ networks[last.slot].last_connected = 1

\* ---- C30 ----------------------------------------------------------------------
\* no valid record of nets has the name ssidp points to
Absent(nets, ssidp) ==
    \A i \in Slots : ~(nets[i].is_valid /\ nets[i].ssid = Deref(ssidp))

\* C30: on an initialized store, wifi_history_update_success and
\* wifi_history_remove_network for a name no valid record has return
\* ESP_ERR_NOT_FOUND and leave the table with its order, count, the
\* timestamp seed and the persisted image as they were.
C30_AbsentNameNotFound ==
    [][(/\ last'.op \in {"success", "remove"}
        /\ s_initialized
        /\ last'.arg # NULL
        /\ Absent(networks, last'.arg)) =>
          /\ last'.ret = ESP_ERR_NOT_FOUND
          /\ networks' = networks
          /\ count' = count
          /\ next_timestamp' = next_timestamp
          /\ nvs' = nvs
      ]_vars

\* a success reported for a name that was removed, in a table that holds two
\* other records
C30_Witness ==
    /\ last.op = "success" /\ last.ret = ESP_ERR_NOT_FOUND
    /\ s_initialized
    /\ Absent(networks, last.arg)
    /\ NumValid(networks) = 2
    /\ ~networks[1].is_valid
    /\ nvs.networks = <<networks>>

\* ---- C31 ----------------------------------------------------------------------
\* C31: a wifi_history_remove_network that returns ESP_OK clears exactly the
\* slot that held the name: the name is no longer found, count is one less,
\* every other slot keeps all its fields, and the cleared slot is free for a
\* later add; a wifi_history_clear_all that returns ESP_OK leaves no valid
\* slot and count 0.
C31_RemoveClearsOneSlot ==
    [][/\ (last'.op = "remove" /\ last'.ret = ESP_OK) =>
              LET i == find_network_index(networks, last'.arg)
              IN  /\ i >= 0
                  /\ Absent(networks', last'.arg)
                  /\ count' = count - 1
                  /\ \A k \in Slots \ {i} : networks'[k] = networks[k]
                  /\ networks'[i] = ZeroEntry
                  /\ find_empty_slot(networks') \in 0 .. i
       /\ (last'.op = "clear" /\ last'.ret = ESP_OK) =>
              /\ NumValid(networks') = 0
              /\ count' = 0
      ]_vars

\* ---- C32 ----------------------------------------------------------------------
\* C32 as stated: in every pass of the loop in which the station interface
\* holds a non-zero address, the loop sets failed_attempts to 0 and makes no
\* driver call.
C32_AddressMeansConnected ==
    [][(last'.op = "cycle" /\ last'.arg.has_ip) =>
          /\ failed_attempts' = 0
          /\ calls' = <<>>
      ]_vars

\* C32 amended: a pass takes the device as connected exactly when the
\* interface holds a non-zero address and esp_wifi_sta_get_ap_info succeeds;
\* in such a pass failed_attempts becomes 0, no driver call is made and the
\* station configuration is left alone.
C32_ConnectedPassIsIdle ==
    [][last'.op = "cycle" =>
          /\ (last'.arg.has_ip /\ assoc) <=> last'.arg.branch = "connected"
          /\ last'.arg.branch = "connected" =>
                /\ failed_attempts' = 0
                /\ calls' = <<>>
                /\ sta_config' = sta_config
                /\ assoc' = assoc
      ]_vars

\* a pass found the device connected after two failed attempts
C32_Witness ==
    /\ CycleTook({"connected"})
    /\ last.arg.has_ip /\ assoc
    /\ last.arg.before = 2
    /\ failed_attempts = 0
    /\ calls = <<>>

\* ---- C33 ----------------------------------------------------------------------
\* the connect requests of a call sequence, in order
ConnectSeq(cs) == SelectSeq(cs, LAMBDA c : c.fn = "connect")

wifi_history_save_unguarded ==
    SaveAndReturn("save", NULL, networks, count, next_timestamp, -1, FALSE, <<>>)

\* esp_err_t wifi_history_save(void), called on its own
wifi_history_save ==
    IF ~s_initialized THEN ReturnOnly("save", NULL, ESP_ERR_INVALID_STATE)
    ELSE SaveAndReturn("save", NULL, networks, count, next_timestamp, -1, FALSE, <<>>)

SaveStep == wifi_history_save /\ UNCHANGED <<orchVars, drvVars, taskVars>>

\* SpecUninit: every operation of the store, before and after wifi_history_init,
\* over reboots
UninitScans == ScansUpTo(ApRecords(TwoSsids, {-50}, {StationA}), 1)

NextUninit ==
    \/ InitStep
    \/ AddStep(TwoSsids \cup {NULL}, {PlainArgs})
    \/ SuccessStep(TwoSsids, MaxConnectCount)
    \/ ListStep
    \/ RemoveStep(TwoSsids \cup {NULL})
    \/ ClearStep
    \/ FindBestStep(UninitScans)
    \/ AutoConnectStep(UninitScans, {"none"})
    \/ SaveStep
    \/ Reboot

SpecUninit == Init /\ [][NextUninit]_vars

\* ---- C34 ----------------------------------------------------------------------
StoreOps == {"add", "success", "list", "remove", "clear", "find_best", "auto", "save"}

\* C34: while s_initialized is false, wifi_history_add_network,
\* _update_success, _get_networks, _remove_network, _clear_all,
\* _find_best_network, _auto_connect and _save return ESP_ERR_INVALID_STATE
\* and change nothing: the table, the count, the timestamp counter and the
\* flash image stay as they are, the store stays uninitialized and no driver
\* call is made.
C34_UninitializedIsInert ==
    [][(~s_initialized /\ last'.op \in StoreOps) =>
          /\ last'.ret = ESP_ERR_INVALID_STATE
          /\ last'.op \in {"list", "find_best", "auto"} => last'.out = <<>>
          /\ UNCHANGED <<networks, count, next_timestamp, s_initialized, nvs>>
          /\ UNCHANGED <<sta_config, assoc>>
          /\ IF last'.op = "auto" THEN calls' = <<>> ELSE calls' = calls
      ]_vars

\* after a reboot the flash holds a record and a save is refused
C34_Witness ==
    /\ ~s_initialized
    /\ last.op = "save"
    /\ last.ret = ESP_ERR_INVALID_STATE
    /\ nvs.networks # <<>>
    /\ NumValid(networks) = 0

\* ---- C35 ----------------------------------------------------------------------
\* C35: when an upsert or a recorded success of a name has succeeded, the
\* record of that name is the one connected last, so among the valid records
\* of its priority it carries the greatest last_connected: no record whose
\* latest connection lies before it, in this boot or in an earlier one, wins
\* the recency tie-break against it.
C35_LatestWinsRecency ==
    [][(last'.op \in {"add", "success"} /\ last'.ret = ESP_OK) =>
          LET x == find_network_index(networks', last'.arg)
          IN  \A y \in ValidSlots(networks') :
                  (x >= 0 /\ networks'[y].priority = networks'[x].priority) =>
                      networks'[x].last_connected >= networks'[y].last_connected
      ]_vars

\* ---- C36 ----------------------------------------------------------------------
\* C36: s_retry_num is always between 0 and MAX_RETRY_COUNT, and since the
\* counter was last set to 0 (Connected, IpAcquired, explicit reset, boot) the
\* event handler has issued at most MAX_RETRY_COUNT connect calls, whatever
\* the reasons of the Disconnected events were.
C36_RetryCounterBounded ==
    /\ s_retry_num \in 0 .. MAX_RETRY_COUNT
    /\ streak.issued <= MAX_RETRY_COUNT
    /\ streak.issued <= s_retry_num

\* five connects went out for events of mixed reasons, and further events
\* are left unanswered
C36_Witness ==
    /\ last.op = "sta_disconnected"
    /\ streak.k = NoStreak.k
    /\ streak.issued = MAX_RETRY_COUNT
    /\ s_retry_num = MAX_RETRY_COUNT
    /\ calls = <<>>

\* ---- C37 ----------------------------------------------------------------------
\* C37: every esp_wifi_connect of a pass of wifi_auto_connect_task comes
\* after the scan of that pass and after a record was selected, and is made on
\* a station configuration that carries the selected record's name and secret
\* and the channel of the matched scan entry.
C37_ConnectAfterSelection ==
    [][last'.op = "cycle" =>
          \A n \in Connects(calls') :
              /\ \E m \in 1 .. (n - 1) : calls'[m].fn = "scan_start"
              /\ last'.out # <<>>
              /\ calls'[n].cfg.ssid = strlcpy(last'.out[1].net.ssid, StaSsidSize)
              /\ calls'[n].cfg.password =
                    strlcpy(last'.out[1].net.password, StaPasswordSize)
              /\ calls'[n].cfg.channel = last'.out[1].ap.primary
      ]_vars

\* ---- SpecSeq: wifi_history_auto_connect in two steps, and the event task -------
\* the reason of the Disconnected event that follows esp_wifi_disconnect
LeaveReason == "WIFI_REASON_ASSOC_LEAVE"

\* wifi_history_auto_connect up to the wait after esp_wifi_disconnect
SeqBegin ==
    /\ s_initialized
    /\ mode_has_sta
    /\ walker.pc = "idle"
    /\ walker' = [pc |-> "wait", was_connected |-> assoc]
    /\ calls' = IF assoc THEN <<Call("disconnect", ZeroStaConfig)>> ELSE <<>>
    /\ last' = Report("seq_begin", Ptr(assoc), ESP_OK, -1, FALSE, <<>>)
    /\ UNCHANGED <<networks, count, next_timestamp, s_initialized, nvs, now, budget,
                   saved>>
    /\ UNCHANGED <<orchVars, sta_config, assoc, failed_attempts, wifi_config, usb, ws, updater>>

\* the driver completes the disconnect the sequence asked for and the event
\* task handles WIFI_EVENT_STA_DISCONNECTED
SeqLinkDown ==
    /\ walker.pc = "wait"
    /\ walker.was_connected
    /\ assoc
    /\ OnStaDisconnected(LeaveReason)

\* wifi_history_auto_connect from esp_wifi_scan_stop to its return
SeqFinish(aps, fail) ==
    /\ walker.pc = "wait"
    /\ LET r == auto_connect_run(networks, aps, sta_config, FALSE, fail)
       IN  /\ last' = Report("auto", [aps |-> aps, fail |-> fail], r.ret, -1, FALSE,
                             r.sel)
           /\ calls' = r.calls
           /\ sta_config' = r.cfg
    /\ assoc' = FALSE
    /\ walker' = IdleWalker
    /\ UNCHANGED <<networks, count, next_timestamp, s_initialized, nvs, now, budget,
                   saved>>
    /\ UNCHANGED <<orchVars, failed_attempts, wifi_config, usb, ws, updater>>

SeqFinishStep == \E aps \in OrchScans, fail \in {"none", "connect"} : SeqFinish(aps, fail)

NextSeq ==
    \/ InitStep
    \/ AddStep(OneSsid, {FullArgs})
    \/ SeqBegin
    \/ SeqLinkDown
    \/ SeqFinishStep
    \/ ConnectedStep
    \/ DisconnectedStep

SpecSeq == Init /\ [][NextSeq]_vars

\* ---- C38 ----------------------------------------------------------------------
\* C38: while wifi_history_auto_connect is between its esp_wifi_disconnect and
\* its final connect request, the handler of WIFI_EVENT_STA_DISCONNECTED calls
\* no esp_wifi_connect.
C38_HandlerQuietDuringSequence ==
    [][(/\ walker.pc = "wait"
        /\ walker.was_connected
        /\ last'.op = "sta_disconnected") => Connects(calls') = {}
      ]_vars

\* ---- usbd_cdc.c -----------------------------------------------------------------
ESP_FAIL == "ESP_FAIL"
ESP_ERR_TIMEOUT == "ESP_ERR_TIMEOUT"

\* the mutex objects that can exist at a time
MaxMutexes == 2

\* the handle xSemaphoreCreateMutex returns: an object that does not exist yet
MutexHandle == CHOOSE h \in 1 .. MaxMutexes : h \notin usb.alive
\* the handle cdc_acm_host_open returns
DeviceHandle == 1
\* the tasks that call usbd_cdc_send_data
Senders == {1, 2}

\* the calls of usbd_cdc_init that can fail
CdcInitFailPoints ==
    {"sem", "mutex", "host_install", "lib_task", "acm_install", "host_task"}

\* mutant: the context is initialized field by field and keeps its mutex
cdc_context_keeping_mutex(dev) ==
    [dev EXCEPT !.state = "DISCONNECTED", !.cdc_hdl = NULL_HANDLE,
                !.is_initialized = TRUE]

\* memset(&s_cdc_dev, 0, sizeof(cdc_dev_context_t)); state, rx_cb,
\* is_initialized assigned
cdc_context_reset(dev) ==
    [dev EXCEPT !.mutex = NULL_HANDLE, !.state = "DISCONNECTED",
                !.cdc_hdl = NULL_HANDLE, !.is_initialized = TRUE]

CdcReturn(op, arg, ret) ==
    /\ last' = Report(op, arg, ret, -1, FALSE, <<>>)
    /\ UNCHANGED <<networks, count, next_timestamp, s_initialized, nvs, now, budget,
                   saved>>
    /\ UNCHANGED <<orchVars, drvVars, failed_attempts, wifi_config, ws, updater,
                   walker>>

usbd_cdc_init(fail) ==
    /\ Cardinality(usb.alive) < MaxMutexes
    /\ usb' =
          IF usb.is_initialized \/ fail = "sem" THEN usb
          ELSE IF fail = "mutex" THEN [usb EXCEPT !.mutex = NULL_HANDLE]
          ELSE IF fail \in {"host_install", "lib_task", "acm_install"}
          THEN [usb EXCEPT !.mutex = MutexHandle]
          ELSE LET made == [usb EXCEPT !.mutex = MutexHandle,
                                       !.alive = usb.alive \cup {MutexHandle}]
                   dev == cdc_context_reset(made)
               IN  IF fail = "host_task"
                   THEN [dev EXCEPT !.alive = @ \ {dev.mutex},
                                    !.is_initialized = FALSE]
                   ELSE dev
    /\ CdcReturn("cdc_init", fail,
                 IF usb.is_initialized THEN ESP_ERR_INVALID_STATE
                 ELSE IF fail \in {"sem", "mutex", "lib_task", "host_task"}
                 THEN ESP_ERR_NO_MEM
                 ELSE IF fail \in {"host_install", "acm_install"} THEN ESP_FAIL
                 ELSE ESP_OK)

\* usb_cdc_host_task: cdc_acm_host_open succeeds
CdcDeviceOpened ==
    /\ usb.is_initialized
    /\ usb.state = "DISCONNECTED"
    /\ usb' = [usb EXCEPT !.cdc_hdl = DeviceHandle, !.state = "CONNECTED"]
    /\ CdcReturn("cdc_open", NULL, ESP_OK)

\* cdc_device_event_callback: CDC_ACM_HOST_DEVICE_DISCONNECTED
CdcDeviceGone ==
    /\ usb.state = "CONNECTED"
    /\ usb' = [usb EXCEPT !.cdc_hdl = NULL_HANDLE, !.state = "DISCONNECTED"]
    /\ CdcReturn("cdc_gone", NULL, ESP_OK)

\* what xSemaphoreTake(NULL, ..) can do: configASSERT stops the device; with
\* assertions compiled out the call reads through the null handle, and either
\* faults or returns a value computed from what it read
NullTakeOutcomes == {"abort", "pdFALSE", "pdTRUE"}

\* usbd_cdc_send_data up to the start of cdc_acm_host_data_tx_blocking
CdcSendBegin(p, data_ok, outcome) ==
    /\ p \notin usb.tx
    /\ IF ~usb.is_initialized
       THEN usb' = usb /\ CdcReturn("cdc_send", p, ESP_ERR_INVALID_STATE)
       ELSE IF ~data_ok
       THEN usb' = usb /\ CdcReturn("cdc_send", p, ESP_ERR_INVALID_ARG)
       ELSE IF usb.state # "CONNECTED" \/ usb.cdc_hdl = NULL_HANDLE
       THEN usb' = usb /\ CdcReturn("cdc_send", p, ESP_ERR_NOT_FOUND)
       ELSE IF usb.mutex \notin usb.alive
       THEN CASE outcome = "abort" ->
                     usb' = FreshUsb /\ CdcReturn("cdc_send", p, "abort")
              [] outcome = "pdFALSE" ->
                     usb' = usb /\ CdcReturn("cdc_send", p, ESP_ERR_TIMEOUT)
              [] OTHER ->
                     /\ usb' = [usb EXCEPT !.tx = @ \cup {p}]
                     /\ CdcReturn("cdc_tx", p, ESP_OK)
       ELSE IF usb.owner # 0
       THEN usb' = usb /\ CdcReturn("cdc_send", p, ESP_ERR_TIMEOUT)
       ELSE /\ usb' = [usb EXCEPT !.owner = p, !.tx = @ \cup {p}]
            /\ CdcReturn("cdc_tx", p, ESP_OK)

\* cdc_acm_host_data_tx_blocking returns, xSemaphoreGive, return
CdcSendEnd(p, tx_ok) ==
    /\ p \in usb.tx
    /\ usb' = [usb EXCEPT !.tx = @ \ {p},
                          !.owner = IF @ = p THEN 0 ELSE @]
    /\ CdcReturn("cdc_send", p, IF tx_ok THEN ESP_OK ELSE ESP_FAIL)

CdcInitStep == \E fail \in {"none"} \cup CdcInitFailPoints : usbd_cdc_init(fail)

CdcSendBeginStep ==
    \E p \in Senders, data_ok \in BOOLEAN, outcome \in NullTakeOutcomes :
        CdcSendBegin(p, data_ok, outcome)

CdcSendEndStep == \E p \in Senders, tx_ok \in BOOLEAN : CdcSendEnd(p, tx_ok)

NextCdc ==
    \/ CdcInitStep
    \/ CdcDeviceOpened
    \/ CdcDeviceGone
    \/ CdcSendBeginStep
    \/ CdcSendEndStep

SpecCdc == Init /\ [][NextCdc]_vars

\* ---- C39 ----------------------------------------------------------------------
\* C39: once usbd_cdc_init has returned ESP_OK, s_cdc_dev.mutex names the
\* mutex created during the initialization, and no two tasks are inside the
\* blocking transmit at the same time.
C39_SendersExcluded ==
    /\ usb.is_initialized =>
          /\ usb.mutex # NULL_HANDLE
          /\ usb.mutex \in usb.alive
    /\ Cardinality(usb.tx) <= 1

\* ---- web_socket.c ---------------------------------------------------------------
\* #define WS_QUEUE_SIZE 10, scaled down
WS_QUEUE_SIZE == 2
\* the buffers malloc hands out in one run
MaxBuffers == WS_QUEUE_SIZE + 2
\* the handles of the http server, the queue and the send task
ServerHandle == 1
QueueHandle == 1
TaskHandle == 1
\* httpd_req_to_sockfd
ClientFd == 3

\* mutant: free does not release the buffer
ws_free_leaking(frees, id) == frees

\* free(msg.data) / free(data_copy)
ws_free(frees, id) == [frees EXCEPT ![id] = @ + 1]

WsReturn(op, arg, ret) ==
    /\ last' = Report(op, arg, ret, -1, FALSE, <<>>)
    /\ UNCHANGED <<networks, count, next_timestamp, s_initialized, nvs, now, budget,
                   saved>>
    /\ UNCHANGED <<orchVars, drvVars, failed_attempts, wifi_config, usb, updater,
                   walker>>

\* websocket_start with ws_init_ctx; start_webserver calls it once per boot
websocket_start(server, queue_ok, task_ok) ==
    /\ ws.server = NULL_HANDLE
    /\ ws' =
          IF server = NULL_HANDLE THEN ws
          ELSE LET ctx == [ws EXCEPT !.server = server, !.client_fd = -1,
                                     !.connected = FALSE,
                                     !.msg_queue = NULL_HANDLE,
                                     !.task_handle = NULL_HANDLE,
                                     !.queue = <<>>, !.held = <<>>]
               IN  IF ~queue_ok THEN ctx
                   ELSE IF ~task_ok THEN ctx
                   ELSE [ctx EXCEPT !.msg_queue = QueueHandle,
                                    !.task_handle = TaskHandle]
    /\ WsReturn("ws_start", Ptr(server), ESP_OK)

\* ws_handler, HTTP_GET: the handshake of a client
WsClientConnected ==
    /\ ws.server # NULL_HANDLE
    /\ ws' = [ws EXCEPT !.client_fd = ClientFd, !.connected = TRUE]
    /\ WsReturn("ws_client", NULL, ESP_OK)

\* xQueueSend(ws_ctx.msg_queue, &msg, 0) == pdTRUE
queue_has_room(q) == Len(q) < WS_QUEUE_SIZE

\* websocket_server_send_text and websocket_server_send_binary: arg_ok is
\* data != NULL (and len != 0), malloc_ok the result of malloc
websocket_server_send(type, arg_ok, malloc_ok) ==
    LET id == Len(ws.frees) + 1
    IN  IF ~arg_ok \/ ws.msg_queue = NULL_HANDLE
        THEN ws' = ws /\ WsReturn("ws_send", type, ESP_ERR_INVALID_ARG)
        ELSE IF ~malloc_ok
        THEN ws' = ws /\ WsReturn("ws_send", type, ESP_ERR_NO_MEM)
        ELSE /\ id <= MaxBuffers
             /\ IF queue_has_room(ws.queue)
                THEN /\ ws' = [ws EXCEPT
                                  !.frees = Append(@, 0),
                                  !.fate = Append(@, "queued"),
                                  !.queue = Append(@, [type |-> type, data |-> id]),
                                  !.enqueued = Append(@, id)]
                     /\ WsReturn("ws_send", type, ESP_OK)
                ELSE /\ ws' = [ws EXCEPT
                                  !.frees = ws_free(Append(@, 0), id),
                                  !.fate = Append(@, "full")]
                     /\ WsReturn("ws_send", type, ESP_FAIL)

\* ws_send_task: xQueueReceive returns a message
WsReceive ==
    /\ ws.task_handle # NULL_HANDLE
    /\ ws.held = <<>>
    /\ ws.queue # <<>>
    /\ ws' = [ws EXCEPT !.held = <<Head(ws.queue)>>, !.queue = Tail(@),
                        !.taken = Append(@, Head(ws.queue).data)]
    /\ WsReturn("ws_receive", NULL, ESP_OK)

\* ws_send_task: the message is dropped, or sent with or without success, and
\* its buffer freed
WsProcess(send_ok) ==
    /\ ws.held # <<>>
    /\ LET msg == ws.held[1]
           id == msg.data
       IN  IF ~ws.connected \/ ws.server = NULL_HANDLE \/ ws.client_fd < 0
           THEN /\ ws' = [ws EXCEPT !.held = <<>>,
                                    !.frees = ws_free(@, id),
                                    !.fate[id] = "dropped"]
                /\ WsReturn("ws_task", msg.type, ESP_ERR_INVALID_STATE)
           ELSE IF send_ok
           THEN /\ ws' = [ws EXCEPT !.held = <<>>,
                                    !.frees = ws_free(@, id),
                                    !.fate[id] = "sent",
                                    !.sent = Append(@, id)]
                /\ WsReturn("ws_task", msg.type, ESP_OK)
           ELSE /\ ws' = [ws EXCEPT !.held = <<>>,
                                    !.connected = FALSE, !.client_fd = -1,
                                    !.frees = ws_free(@, id),
                                    !.fate[id] = "failed"]
                /\ WsReturn("ws_task", msg.type, ESP_FAIL)

WsStartStep ==
    \E server \in {NULL_HANDLE, ServerHandle}, queue_ok \in BOOLEAN,
       task_ok \in BOOLEAN : websocket_start(server, queue_ok, task_ok)

WsSendStep ==
    \E type \in {"WS_MSG_TEXT", "WS_MSG_BINARY"}, arg_ok \in BOOLEAN,
       malloc_ok \in BOOLEAN : websocket_server_send(type, arg_ok, malloc_ok)

WsProcessStep == \E send_ok \in BOOLEAN : WsProcess(send_ok)

NextWs ==
    \/ WsStartStep
    \/ WsClientConnected
    \/ WsSendStep
    \/ WsReceive
    \/ WsProcessStep

SpecWs == Init /\ [][NextWs]_vars

\* ---- C40 ----------------------------------------------------------------------
\* the buffers that sit in the queue or in the hands of the send task
WsInFlight == {ws.queue[k].data : k \in DOMAIN ws.queue} \cup
              {ws.held[k].data : k \in DOMAIN ws.held}

====
